---------------------------- MODULE Spec2Model ----------------------------
(***************************************************************************)
(* A model of mtg_deal_finder: the file cache of search results            *)
(* (utils/caching.py), the condition ranking (quality.py) and the          *)
(* selection strategies (strategies.py).                                   *)
(*                                                                         *)
(* Text is a sequence of one-character strings, so that the character-     *)
(* level operations of the code (replace, isalnum filter, lower, strip,    *)
(* substring test, startswith) are computed as the code computes them.     *)
(* Prices are integer cents.  Time is counted in whole hours.              *)
(*                                                                         *)
(* The file system is part of the state (fs): whether the cache directory  *)
(* can be created and whether cache files can be opened for reading,       *)
(* opened for writing and removed.  In specification Spec it works         *)
(* throughout, so the except branches of caching.py (lines 62-64, 98-99,   *)
(* 104-107, 130-131) are not taken there; specification SpecFault lets it  *)
(* fail and lets cache files be damaged.                                   *)
(***************************************************************************)
EXTENDS Integers, Sequences, FiniteSets

VARIABLES
    \* ---- cache (utils/caching.py) ----
    disk,           \* cache file name -> None or Some(the JSON document in it)
    cacheDirExists, \* whether CACHE_DIR has been created
    fs,             \* the file system: which file operations succeed
    now,            \* the clock, datetime.now(), in hours
    ticks,          \* how many times the clock has advanced
    lastOp,         \* the last cache operation: its kind, arguments, result
    probe,          \* observer: one save_to_cache call being followed
    \* ---- selection (strategies.py) ----
    offers,         \* the list handed to select
    strategy,       \* the strategy name
    min_quality,    \* the strategy's quality floor: None or Some(rank)
    selected,       \* what select returned: None or Some(offer)
    selPc,          \* "input" before select has run, "done" after
    \* ---- condition ranking (quality.py) ----
    condText,       \* the condition text handed to meets_minimum_quality
    verdicts,       \* floor -> what meets_minimum_quality(condText, floor) returned
    \* ---- the driver (main.py, select_best_offers) ----
    cards,          \* the list of Card objects requested
    card_offers,    \* dict: card name -> list of offers found
    driverCall,     \* None, or Some of the strategy_name and min_quality passed
    selected_offers, \* the list select_best_offers returned
    log,            \* what select_best_offers logged, in order
    \* ---- the aggregator (main.py, search_all_stores) ----
    site,           \* the world: <<store, card name>> -> what the store's site
                    \* answers, None for a failed request or Some(offers)
    aggCall,        \* None, or Some of the store_filter and use_cache passed
    aggOutcome,     \* "none" before the call, then "returned" or the exception
    \* ---- the TopDeckHero scraper (stores/topdeckhero.py) ----
    lastSearch,     \* None, or Some of the last call of search: its card and
                    \* use_cache, what it returned, how many requests it made
    \* ---- one cache file used by several workers at once ----
    cacheFile,      \* None while the file does not exist, or Some of the
                    \* blocks in it
    savers,         \* worker -> where it is in save_to_cache
    loader,         \* where the loading worker is in load_from_cache
    \* ---- construction of cards and offers (cards.py) ----
    built           \* None, or Some of the last constructor call: its
                    \* arguments and what came of it

vars == <<disk, cacheDirExists, fs, now, ticks, lastOp, probe,
          offers, strategy, min_quality, selected, selPc,
          condText, verdicts,
          cards, card_offers, driverCall, selected_offers, log,
          site, aggCall, aggOutcome, lastSearch,
          cacheFile, savers, loader, built>>

cacheVars == <<disk, cacheDirExists, fs, now, ticks, lastOp, probe>>
selVars   == <<offers, strategy, min_quality, selected, selPc>>
qualVars  == <<condText, verdicts>>
drvVars   == <<cards, card_offers, driverCall, selected_offers, log>>
aggVars   == <<site, aggCall, aggOutcome>>
concVars  == <<cacheFile, savers, loader>>

\* what the cache operations, select, meets_minimum_quality and
\* select_best_offers leave alone
notCacheVars == <<selVars, qualVars, drvVars, aggVars, lastSearch, concVars, built>>
notSelVars   == <<cacheVars, qualVars, drvVars, aggVars, lastSearch, concVars, built>>
notQualVars  == <<cacheVars, selVars, drvVars, aggVars, lastSearch, concVars, built>>
notDrvVars   == <<cacheVars, selVars, qualVars, aggVars, lastSearch, concVars, built>>
notAggVars   == <<cacheVars, selVars, qualVars, lastSearch, concVars, built>>
notSearchVars == <<selVars, qualVars, drvVars, aggVars, concVars, built>>
notConcVars  == <<cacheVars, selVars, qualVars, drvVars, aggVars, lastSearch, built>>
notCacheConcVars == <<selVars, qualVars, drvVars, aggVars, lastSearch, built>>
notBuiltVars == <<cacheVars, selVars, qualVars, drvVars, aggVars, lastSearch, concVars>>

\* Python's Optional: None is the empty tuple, a value x is <<x>>
None == <<>>
Some(x) == <<x>>
Get(opt) == opt[1]

-----------------------------------------------------------------------------
(* Text helpers *)

UpperChars == <<"A","B","C","D","E","F","G","H","I","J","K","L","M",
                "N","O","P","Q","R","S","T","U","V","W","X","Y","Z">>
LowerChars == <<"a","b","c","d","e","f","g","h","i","j","k","l","m",
                "n","o","p","q","r","s","t","u","v","w","x","y","z">>
DigitChars == <<"0","1","2","3","4","5","6","7","8","9">>

Range(s) == {s[i] : i \in DOMAIN s}

\* str.isalnum() for one character
AlnumChars == Range(UpperChars) \cup Range(LowerChars) \cup Range(DigitChars)
IsAlnum(c) == c \in AlnumChars

\* str.isspace() for one character
IsSpace(c) == c \in {" ", "\t", "\n"}

\* str.lower()
UpperSet == Range(UpperChars)
LowerChar(c) ==
    IF c \in UpperSet
    THEN LowerChars[CHOOSE i \in DOMAIN UpperChars : UpperChars[i] = c]
    ELSE c
Lower(s) == [i \in DOMAIN s |-> LowerChar(s[i])]

\* str.replace(a, b) for one-character a and b
ReplaceChar(s, a, b) == [i \in DOMAIN s |-> IF s[i] = a THEN b ELSE s[i]]

\* str.strip()
Strip(s) ==
    LET keep == {i \in DOMAIN s : ~IsSpace(s[i])}
    IN  IF keep = {} THEN <<>>
        ELSE LET lo == CHOOSE i \in keep : \A j \in keep : i <= j
                 hi == CHOOSE i \in keep : \A j \in keep : j <= i
             IN  SubSeq(s, lo, hi)

\* the Python test `sub in s` on strings
Contains(sub, s) ==
    \E i \in 0..(Len(s) - Len(sub)) : SubSeq(s, i + 1, i + Len(sub)) = sub

\* str.startswith
StartsWith(s, prefix) ==
    Len(prefix) <= Len(s) /\ SubSeq(s, 1, Len(prefix)) = prefix

-----------------------------------------------------------------------------
(* quality.py *)

DAMAGED           == 1
HEAVILY_PLAYED    == 2
PLAYED            == 3
MODERATELY_PLAYED == 4
LIGHTLY_PLAYED    == 5
NEAR_MINT         == 6
MINT              == 7

CardQuality == {DAMAGED, HEAVILY_PLAYED, PLAYED, MODERATELY_PLAYED,
                LIGHTLY_PLAYED, NEAR_MINT, MINT}

\* condition_map of CardQuality.from_string, as <<key, rank>> pairs
condition_map ==
    { << <<"m","i","n","t">>, MINT >>,
      << <<"m">>, MINT >>,
      << <<"n","e","a","r"," ","m","i","n","t">>, NEAR_MINT >>,
      << <<"n","m">>, NEAR_MINT >>,
      << <<"l","i","g","h","t","l","y"," ","p","l","a","y","e","d">>, LIGHTLY_PLAYED >>,
      << <<"l","p">>, LIGHTLY_PLAYED >>,
      << <<"m","o","d","e","r","a","t","e","l","y"," ","p","l","a","y","e","d">>,
         MODERATELY_PLAYED >>,
      << <<"m","p">>, MODERATELY_PLAYED >>,
      << <<"p","l","a","y","e","d">>, PLAYED >>,
      << <<"p","l">>, PLAYED >>,
      << <<"p">>, PLAYED >>,
      << <<"h","e","a","v","i","l","y"," ","p","l","a","y","e","d">>, HEAVILY_PLAYED >>,
      << <<"h","p">>, HEAVILY_PLAYED >>,
      << <<"d","a","m","a","g","e","d">>, DAMAGED >>,
      << <<"d","m","g">>, DAMAGED >> }

\* CardQuality.from_string
from_string(condition) ==
    IF condition = <<>> THEN None
    ELSE LET condition_lower == Strip(Lower(condition))
             hits == {e \in condition_map : e[1] = condition_lower}
         IN  IF hits = {} THEN None ELSE Some((CHOOSE e \in hits : TRUE)[2])

\* a floor test that lets an unrecognized condition pass
meets_minimum_quality_UnknownPasses(condition, floor) ==
    IF floor = None THEN TRUE
    ELSE LET card_quality == from_string(condition)
         IN  IF card_quality = None THEN TRUE
             ELSE Get(card_quality) >= Get(floor)

\* a floor test that compares the wrong way round
meets_minimum_quality_Reversed(condition, floor) ==
    IF floor = None THEN TRUE
    ELSE LET card_quality == from_string(condition)
         IN  IF card_quality = None THEN FALSE
             ELSE Get(card_quality) <= Get(floor)

\* meets_minimum_quality
meets_minimum_quality(condition, floor) ==
    IF floor = None THEN TRUE
    ELSE LET card_quality == from_string(condition)
         IN  IF card_quality = None THEN FALSE
             ELSE Get(card_quality) >= Get(floor)

-----------------------------------------------------------------------------
(* strategies.py *)

\* a minimum that is the first element whatever the prices
PyMinByPrice_First(xs) == xs[1]

\* min(xs, key=lambda x: x.price): the first element of least price
PyMinByPrice(xs) ==
    xs[CHOOSE i \in DOMAIN xs :
          /\ \A j \in DOMAIN xs : xs[i].price <= xs[j].price
          /\ \A j \in 1..(i - 1) : xs[j].price > xs[i].price]

\* a maximum that is the minimum
PyMaxByPrice_Min(xs) == PyMinByPrice(xs)

\* max(xs, key=lambda x: x.price): the first element of greatest price
PyMaxByPrice(xs) ==
    xs[CHOOSE i \in DOMAIN xs :
          /\ \A j \in DOMAIN xs : xs[i].price >= xs[j].price
          /\ \A j \in 1..(i - 1) : xs[j].price < xs[i].price]

\* a stock test that passes every offer
IsAvailable_Always(o) == TRUE

\* the list comprehensions' tests: o.availability, o.foil, not o.foil
IsAvailable(o) == o.availability
IsFoil(o)      == o.foil
IsNonFoil(o)   == ~o.foil

\* a quality filter that drops nothing
filter_by_quality_None(floor, xs) == xs

\* SelectionStrategy._filter_by_quality
filter_by_quality(floor, xs) ==
    IF floor = None THEN xs
    ELSE SelectSeq(xs, LAMBDA o : meets_minimum_quality(o.condition, floor))

\* CheapestStrategy.select
CheapestStrategy_select(floor, xs) ==
    IF xs = <<>> THEN None
    ELSE LET quality_filtered == filter_by_quality(floor, xs)
             available_offers == SelectSeq(quality_filtered, IsAvailable)
         IN  IF available_offers = <<>> THEN None
             ELSE Some(PyMinByPrice(available_offers))

\* a cheapest-foil that does not look at the variant
CheapestFoilStrategy_select_AnyVariant(floor, xs) == CheapestStrategy_select(floor, xs)

\* CheapestFoilStrategy.select
CheapestFoilStrategy_select(floor, xs) ==
    IF xs = <<>> THEN None
    ELSE LET quality_filtered == filter_by_quality(floor, xs)
             foil_offers == SelectSeq(quality_filtered,
                                      LAMBDA o : o.foil /\ o.availability)
         IN  IF foil_offers = <<>> THEN None
             ELSE Some(PyMinByPrice(foil_offers))

\* CheapestNonFoilStrategy.select
CheapestNonFoilStrategy_select(floor, xs) ==
    IF xs = <<>> THEN None
    ELSE LET quality_filtered == filter_by_quality(floor, xs)
             non_foil_offers == SelectSeq(quality_filtered,
                                          LAMBDA o : ~o.foil /\ o.availability)
         IN  IF non_foil_offers = <<>> THEN None
             ELSE Some(PyMinByPrice(non_foil_offers))

\* BlingiestStrategy.select
BlingiestStrategy_select(floor, xs) ==
    IF xs = <<>> THEN None
    ELSE LET quality_filtered == filter_by_quality(floor, xs)
             foil_offers == SelectSeq(quality_filtered,
                                      LAMBDA o : o.foil /\ o.availability)
         IN  IF foil_offers = <<>> THEN None
             ELSE Some(PyMaxByPrice(foil_offers))

\* BestConditionStrategy.NEAR_MINT_CONDITIONS
NEAR_MINT_CONDITIONS ==
    << <<"N","e","a","r"," ","M","i","n","t">>, <<"N","M">>,
       <<"M","i","n","t">>, <<"M">> >>

\* any(nm_cond.lower() in o.condition.lower() for nm_cond in NEAR_MINT_CONDITIONS)
MatchesNearMint(condition) ==
    \E k \in DOMAIN NEAR_MINT_CONDITIONS :
        Contains(Lower(NEAR_MINT_CONDITIONS[k]), Lower(condition))

\* BestConditionStrategy.select
BestConditionStrategy_select(floor, xs) ==
    IF xs = <<>> THEN None
    ELSE LET quality_filtered == filter_by_quality(floor, xs)
             nm_offers == SelectSeq(quality_filtered,
                              LAMBDA o : o.availability /\ MatchesNearMint(o.condition))
         IN  IF nm_offers = <<>> THEN None
             ELSE Some(PyMinByPrice(nm_offers))

\* a foil-first-cheapest that does not prefer foils
FoilFirstCheapestStrategy_select_NoPreference(floor, xs) ==
    CheapestStrategy_select(floor, xs)

\* FoilFirstCheapestStrategy.select
FoilFirstCheapestStrategy_select(floor, xs) ==
    IF xs = <<>> THEN None
    ELSE LET quality_filtered == filter_by_quality(floor, xs)
             available_offers == SelectSeq(quality_filtered, IsAvailable)
             foil_offers      == SelectSeq(available_offers, IsFoil)
             non_foil_offers  == SelectSeq(available_offers, IsNonFoil)
         IN  IF available_offers = <<>> THEN None
             ELSE IF foil_offers # <<>> THEN Some(PyMinByPrice(foil_offers))
             ELSE IF non_foil_offers # <<>> THEN Some(PyMinByPrice(non_foil_offers))
             ELSE None

\* AVAILABLE_STRATEGIES: the registered names
AVAILABLE_STRATEGIES ==
    {"cheapest", "cheapest-foil", "cheapest-nonfoil", "blingiest",
     "best-condition", "foil-first-cheapest"}

\* get_strategy(name, min_quality).select(offers), for a registered name
select(name, floor, xs) ==
    CASE name = "cheapest"            -> CheapestStrategy_select(floor, xs)
      [] name = "cheapest-foil"       -> CheapestFoilStrategy_select(floor, xs)
      [] name = "cheapest-nonfoil"    -> CheapestNonFoilStrategy_select(floor, xs)
      [] name = "blingiest"           -> BlingiestStrategy_select(floor, xs)
      [] name = "best-condition"      -> BestConditionStrategy_select(floor, xs)
      [] name = "foil-first-cheapest" -> FoilFirstCheapestStrategy_select(floor, xs)

\* the keys of AVAILABLE_STRATEGIES as text, each with its name
T_cheapest == <<"c","h","e","a","p","e","s","t">>
StrategyKeys ==
    { << T_cheapest, "cheapest" >>,
      << <<"c","h","e","a","p","e","s","t","-","f","o","i","l">>, "cheapest-foil" >>,
      << <<"c","h","e","a","p","e","s","t","-","n","o","n","f","o","i","l">>,
         "cheapest-nonfoil" >>,
      << <<"b","l","i","n","g","i","e","s","t">>, "blingiest" >>,
      << <<"b","e","s","t","-","c","o","n","d","i","t","i","o","n">>,
         "best-condition" >>,
      << <<"f","o","i","l","-","f","i","r","s","t","-","c","h","e","a","p","e","s","t">>,
         "foil-first-cheapest" >> }

\* get_strategy(strategy_name, min_quality): None when it raises ValueError,
\* otherwise the strategy instance, a name with its floor
get_strategy(strategy_name, floor) ==
    LET key  == Lower(strategy_name)
        hits == {e \in StrategyKeys : e[1] = key}
    IN  IF hits = {} THEN None
        ELSE Some([name |-> (CHOOSE e \in hits : TRUE)[2], min_quality |-> floor])

\* strategy.select(offers) of a strategy instance
strategy_select(instance, xs) == select(instance.name, instance.min_quality, xs)

-----------------------------------------------------------------------------
(* main.py: select_best_offers *)

\* a fallback that forgets the quality floor
fallback_strategy_NoFloor(floor) == get_strategy(T_cheapest, None)

\* the except branch: strategy = get_strategy("cheapest", min_quality)
fallback_strategy(floor) == get_strategy(T_cheapest, floor)

\* card_offers.get(card.name, [])
dict_get(d, key) == IF key \in DOMAIN d THEN d[key] ELSE <<>>

LogEntry(level, what, card_name) == [level |-> level, what |-> what, card |-> card_name]

\* a pass of the loop that appends its pick once per copy asked for
card_step_PerCopy(instance, d, card) ==
    LET found == dict_get(d, card.name)
        best_offer == strategy_select(instance, found)
    IN  IF found = <<>>
        THEN [picked |-> <<>>,
              logged |-> <<LogEntry("warning", "No offers found", card.name)>>]
        ELSE IF best_offer # None
        THEN [picked |-> [k \in 1..card.qty |-> Get(best_offer)],
              logged |-> <<LogEntry("info", "Selected", card.name)>>]
        ELSE [picked |-> <<>>,
              logged |-> <<LogEntry("warning", "No suitable offer found", card.name)>>]

\* a pass of the loop that says nothing of a card it finds no offer for
card_step_Silent(instance, d, card) ==
    LET found == dict_get(d, card.name)
        best_offer == strategy_select(instance, found)
    IN  IF found # <<>> /\ best_offer # None
        THEN [picked |-> <<Get(best_offer)>>,
              logged |-> <<LogEntry("info", "Selected", card.name)>>]
        ELSE [picked |-> <<>>, logged |-> <<>>]

\* the pass of a card that has offers, from `best_offer = strategy.select(offers)`
\* on: the pick is appended and logged, or the warning is logged
step_selected(card, best_offer) ==
    IF best_offer # None
    THEN [picked |-> <<Get(best_offer)>>,
          logged |-> <<LogEntry("info", "Selected", card.name)>>]
    ELSE [picked |-> <<>>,
          logged |-> <<LogEntry("warning", "No suitable offer found", card.name)>>]

\* the pass from `if not offers:` on, found being card_offers.get(card.name, [])
step_found(instance, card, found) ==
    IF found = <<>>
    THEN [picked |-> <<>>,
          logged |-> <<LogEntry("warning", "No offers found", card.name)>>]
    ELSE step_selected(card, strategy_select(instance, found))

\* one pass of the loop over cards: what it appends to selected_offers and
\* what it logs
card_step(instance, d, card) == step_found(instance, card, dict_get(d, card.name))

\* what two stretches of the loop append and log, one after the other
then_step(head, rest) ==
    [picked |-> head.picked \o rest.picked, logged |-> head.logged \o rest.logged]

RECURSIVE card_loop(_, _, _, _)
card_loop(instance, d, cs, i) ==
    IF i > Len(cs) THEN [picked |-> <<>>, logged |-> <<>>]
    ELSE then_step(card_step(instance, d, cs[i]), card_loop(instance, d, cs, i + 1))

\* a select_best_offers that returns its picks last card first
select_best_offers_Reversed(d, cs, strategy_name, floor) ==
    LET first == get_strategy(strategy_name, floor)
        instance == IF first # None THEN Get(first) ELSE Get(fallback_strategy(floor))
        loop == card_loop(instance, d, cs, 1)
        n == Len(loop.picked)
    IN  [selected_offers |-> [i \in 1..n |-> loop.picked[n + 1 - i]],
         log |-> <<LogEntry("info", "Using selection strategy", <<>>)>> \o loop.logged]

\* select_best_offers(card_offers, cards, strategy_name, min_quality): the
\* list returned and the log written
select_best_offers(d, cs, strategy_name, floor) ==
    LET first == get_strategy(strategy_name, floor)
        instance == IF first # None THEN Get(first) ELSE Get(fallback_strategy(floor))
        opening  == IF first # None
                    THEN <<LogEntry("info", "Using selection strategy", <<>>)>>
                    ELSE <<LogEntry("error", "Unknown strategy", <<>>),
                           LogEntry("info", "Falling back to 'cheapest' strategy", <<>>)>>
        loop == card_loop(instance, d, cs, 1)
    IN  [selected_offers |-> loop.picked, log |-> opening \o loop.logged]

\* main, lines 354-356: `if not selected_offers:` the run ends with a warning
\* and nothing is displayed or exported
main_gives_up(offers_selected) == offers_selected = <<>>

-----------------------------------------------------------------------------
(* cards.py: Card and Offer, the dataclasses and their __post_init__ *)

\* what a constructor call comes to: the object, or the ValueError raised
Constructed(obj) == [raised |-> None, obj |-> Some(obj)]
Raises(message)  == [raised |-> Some(message), obj |-> None]

\* Card(name, set, qty)
Card_init(name, set, qty) ==
    IF name = <<>> THEN Raises("Card name cannot be empty")
    ELSE IF qty < 1 THEN Raises("Quantity must be at least 1")
    ELSE Constructed([name |-> name, set |-> set, qty |-> qty])

\* an Offer whose __post_init__ does not look at the price
Offer_init_AnyPrice(store, card, set, cond, price, url, foil, availability, query) ==
    IF store = <<>> THEN Raises("Store name cannot be empty")
    ELSE IF card = <<>> THEN Raises("Card name cannot be empty")
    ELSE Constructed([store |-> store, card |-> card, set |-> set,
                      condition |-> cond, price |-> price, url |-> url,
                      foil |-> foil, availability |-> availability,
                      query |-> query])

\* Offer(store, card, set, condition, price, url, foil, availability, query)
Offer_init(store, card, set, cond, price, url, foil, availability, query) ==
    IF store = <<>> THEN Raises("Store name cannot be empty")
    ELSE IF card = <<>> THEN Raises("Card name cannot be empty")
    ELSE IF price < 0 THEN Raises("Price cannot be negative")
    ELSE Constructed([store |-> store, card |-> card, set |-> set,
                      condition |-> cond, price |-> price, url |-> url,
                      foil |-> foil, availability |-> availability,
                      query |-> query])

-----------------------------------------------------------------------------
(* The inputs of the cache operations *)

\* how many times the clock advances in a run
MaxTicks == 2

\* the clock advances by an hour or by a day
TickHours == {1, 24}

\* STORE_NAME of the two scrapers
T_TopDeckHero == <<"T","o","p","D","e","c","k","H","e","r","o">>
T_FaceToFaceGames == <<"F","a","c","e","T","o","F","a","c","e","G","a","m","e","s">>
Stores == {T_TopDeckHero, T_FaceToFaceGames}

\* two spellings of one card name
T_FireIce_slash == <<"F","i","r","e","/","I","c","e">>
T_FireIce_space == <<"F","i","r","e"," ","I","c","e">>
Cards == {T_FireIce_slash, T_FireIce_space}

\* what _serialize_offers makes of one offer
SerializedOffer(store_name, price) ==
    [store |-> store_name, card |-> T_FireIce_slash, set |-> <<>>,
     condition |-> <<"N","M">>, price |-> price, url |-> <<>>,
     foil |-> FALSE, availability |-> TRUE]

\* the payloads saved under a store: lists of serialized offers.  TopDeckHero
\* is the store whose search saves to the cache, at one price or another; the
\* second store name is there for clear_cache and for keys of another source
Payloads(store_name) ==
    IF store_name = T_TopDeckHero
    THEN {<<SerializedOffer(store_name, 149)>>, <<SerializedOffer(store_name, 199)>>}
    ELSE {<<SerializedOffer(store_name, 149)>>}

\* the ttl_hours argument: not given, or one hour
TtlArgs == {None, Some(1)}

-----------------------------------------------------------------------------
(* utils/caching.py *)

\* save_to_cache's default ttl_hours, and load_from_cache's default for an
\* entry without the field
DEFAULT_TTL_HOURS == 24

T_json == <<".","j","s","o","n">>

\* get_cache_path: the name of the cache file under CACHE_DIR
get_cache_path(store_name, card_name) ==
    LET joined   == store_name \o <<"_">> \o card_name
        replaced == ReplaceChar(ReplaceChar(joined, " ", "_"), "/", "_")
        safe_filename == SelectSeq(replaced, LAMBDA c : IsAlnum(c) \/ c \in {"_", "-"})
    IN  safe_filename \o T_json

\* get_cache_path tabulated over the keys in use
PathTable == {<<s, c, get_cache_path(s, c)>> : s \in Stores, c \in Cards}
PathOf(store_name, card_name) ==
    (CHOOSE e \in PathTable : e[1] = store_name /\ e[2] = card_name)[3]

\* datetime.isoformat() and datetime.fromisoformat(): the text of an instant
isoformat(t) == <<"iso", t>>
fromisoformat(text) == text[2]

\* json.dump(cache_entry, f) and json.load(f): the document in the file
json_dump(cache_entry) == <<"json", cache_entry>>
json_load(content) == content[2]

\* cache_entry as save_to_cache builds it
CacheEntry(t, ttl_hours, data) ==
    [timestamp |-> isoformat(t), ttl_hours |-> ttl_hours, data |-> data]

\* the effective ttl of a save_to_cache call: ttl_hours defaults to 24
EffectiveTtl(ttlArg) == IF ttlArg = None THEN DEFAULT_TTL_HOURS ELSE Get(ttlArg)

\* an expiry test that takes every entry to live the default 24 hours
IsExpired_IgnoresStoredTtl(cache_entry, t) ==
    t - fromisoformat(cache_entry.timestamp) > DEFAULT_TTL_HOURS

\* datetime.now() - timestamp > ttl, with ttl = cache_entry.get("ttl_hours", 24)
IsExpired(cache_entry, t) ==
    LET timestamp == fromisoformat(cache_entry.timestamp)
        ttl == IF "ttl_hours" \in DOMAIN cache_entry
               THEN cache_entry.ttl_hours ELSE DEFAULT_TTL_HOURS
    IN  t - timestamp > ttl

\* the directory after a file is written or removed
WriteFile(d, path, content) ==
    [n \in DOMAIN d \cup {path} |-> IF n = path THEN content ELSE d[n]]
Unlink(d, paths) == [n \in DOMAIN d \ paths |-> d[n]]

\* a file system on which every operation succeeds
FsWorks ==
    [dirCreatable |-> TRUE, readable |-> TRUE, writable |-> TRUE, removable |-> TRUE]

\* CACHE_DIR.mkdir(parents=True, exist_ok=True) in get_cache_path succeeds:
\* the directory is there already or it can be created
mkdir_ok(dirExists, fsrec) == dirExists \/ fsrec.dirCreatable

\* json.load accepts the content of a file
IsJson(content) == content[1] = "json"

\* json.dump accepts the payload
IsSerializable(data) == \A i \in DOMAIN data : "unserializable" \notin DOMAIN data[i]

\* what is in a file opened with 'w' when json.dump raised part way
PartialWrite == <<"text", [partial |-> TRUE]>>

\* save_to_cache from line 51 on: the exception that leaves the function
\* (None when it returns), whether the warning was printed, and the
\* directory it leaves
save_outcome(d, dirExists, fsrec, path, cache_entry) ==
    IF ~mkdir_ok(dirExists, fsrec)
    THEN [raised |-> Some("OSError"), warned |-> FALSE, disk |-> d,
          dirExists |-> dirExists]
    ELSE IF ~fsrec.writable
    THEN [raised |-> None, warned |-> TRUE, disk |-> d, dirExists |-> TRUE]
    ELSE IF ~IsSerializable(cache_entry.data)
    THEN [raised |-> None, warned |-> TRUE,
          disk |-> WriteFile(d, path, PartialWrite), dirExists |-> TRUE]
    ELSE [raised |-> None, warned |-> FALSE,
          disk |-> WriteFile(d, path, json_dump(cache_entry)), dirExists |-> TRUE]

\* a load_from_cache whose try does not cover opening and decoding the file
load_outcome_DecodeRaises(d, dirExists, fsrec, path, t) ==
    IF ~mkdir_ok(dirExists, fsrec)
    THEN [raised |-> Some("OSError"), warned |-> FALSE, ret |-> None, disk |-> d,
          dirExists |-> dirExists]
    ELSE IF path \notin DOMAIN d
    THEN [raised |-> None, warned |-> FALSE, ret |-> None, disk |-> d,
          dirExists |-> TRUE]
    ELSE IF ~fsrec.readable \/ ~IsJson(d[path])
    THEN [raised |-> Some("ValueError"), warned |-> FALSE, ret |-> None, disk |-> d,
          dirExists |-> TRUE]
    ELSE IF "timestamp" \notin DOMAIN json_load(d[path])
    THEN [raised |-> None, warned |-> TRUE, ret |-> None, disk |-> d,
          dirExists |-> TRUE]
    ELSE LET cache_entry == json_load(d[path])
         IN  IF IsExpired(cache_entry, t)
             THEN [raised |-> None, warned |-> ~fsrec.removable, ret |-> None,
                   disk |-> IF fsrec.removable THEN Unlink(d, {path}) ELSE d,
                   dirExists |-> TRUE]
             ELSE IF "data" \notin DOMAIN cache_entry
             THEN [raised |-> None, warned |-> TRUE, ret |-> None, disk |-> d,
                   dirExists |-> TRUE]
             ELSE [raised |-> None, warned |-> FALSE,
                   ret |-> Some(cache_entry.data), disk |-> d, dirExists |-> TRUE]

\* load_from_cache from line 81 on: the exception that leaves the function,
\* whether a warning was printed, what is returned and the directory it leaves
load_outcome(d, dirExists, fsrec, path, t) ==
    IF ~mkdir_ok(dirExists, fsrec)
    THEN [raised |-> Some("OSError"), warned |-> FALSE, ret |-> None, disk |-> d,
          dirExists |-> dirExists]
    ELSE IF path \notin DOMAIN d
    THEN [raised |-> None, warned |-> FALSE, ret |-> None, disk |-> d,
          dirExists |-> TRUE]
    ELSE IF \/ ~fsrec.readable
            \/ ~IsJson(d[path])
            \/ "timestamp" \notin DOMAIN json_load(d[path])
    THEN [raised |-> None, warned |-> TRUE, ret |-> None, disk |-> d,
          dirExists |-> TRUE]
    ELSE LET cache_entry == json_load(d[path])
         IN  IF IsExpired(cache_entry, t)
             THEN [raised |-> None, warned |-> ~fsrec.removable, ret |-> None,
                   disk |-> IF fsrec.removable THEN Unlink(d, {path}) ELSE d,
                   dirExists |-> TRUE]
             ELSE IF "data" \notin DOMAIN cache_entry
             THEN [raised |-> None, warned |-> TRUE, ret |-> None, disk |-> d,
                   dirExists |-> TRUE]
             ELSE [raised |-> None, warned |-> FALSE,
                   ret |-> Some(cache_entry.data), disk |-> d, dirExists |-> TRUE]

\* a clear_cache that does not look at store_name
clear_targets_All(d, storeArg) == DOMAIN d

\* the files clear_cache(store_name) deletes
clear_targets(d, storeArg) ==
    {n \in DOMAIN d :
        storeArg = None \/ StartsWith(n, Get(storeArg) \o <<"_">>)}

\* the files clear_cache(store_name) does delete
clear_removed(d, storeArg, dirExists, fsrec) ==
    IF dirExists /\ fsrec.removable THEN clear_targets(d, storeArg) ELSE {}

LogOp(kind, storeArg, cardArg, ttlArg, ret, count) ==
    [kind |-> kind, store |-> storeArg, card |-> cardArg, ttl |-> ttlArg,
     ret |-> ret, count |-> count, raised |-> None, warned |-> FALSE]

LogOutcome(op, raised, warned) == [op EXCEPT !.raised = raised, !.warned = warned]

\* observer: the save followed is the first one made while none is followed,
\* or a later one to the same key
FollowSave(store_name, card_name, data, ttl_hours) ==
    IF probe = None \/ (Get(probe).store = store_name /\ Get(probe).card = card_name)
    THEN Some([store |-> store_name, card |-> card_name, data |-> data,
               ttl |-> ttl_hours, at |-> now])
    ELSE probe

\* observer: drop the save followed when its source is invalidated
FollowClear(storeArg) ==
    IF probe # None /\ (storeArg = None \/ storeArg = Some(Get(probe).store))
    THEN None
    ELSE probe

\* save_to_cache(store_name, card_name, data[, ttl_hours])
save_to_cache(store_name, card_name, data, ttlArg) ==
    LET cache_path  == PathOf(store_name, card_name)
        cache_entry == CacheEntry(now, EffectiveTtl(ttlArg), data)
        out == save_outcome(disk, cacheDirExists, fs, cache_path, cache_entry)
    IN  /\ cacheDirExists' = out.dirExists
        /\ disk' = out.disk
        /\ lastOp' = LogOutcome(LogOp("save", Some(store_name), Some(card_name),
                                      ttlArg, None, 0),
                                out.raised, out.warned)
        /\ probe' = IF out.raised = None /\ ~out.warned
                    THEN FollowSave(store_name, card_name, data, EffectiveTtl(ttlArg))
                    ELSE probe
        /\ UNCHANGED <<fs, now, ticks, notCacheVars>>

\* load_from_cache(store_name, card_name)
load_from_cache(store_name, card_name) ==
    LET cache_path == PathOf(store_name, card_name)
        out == load_outcome(disk, cacheDirExists, fs, cache_path, now)
    IN  /\ cacheDirExists' = out.dirExists
        /\ disk' = out.disk
        /\ lastOp' = LogOutcome(LogOp("load", Some(store_name), Some(card_name),
                                      None, out.ret, 0),
                                out.raised, out.warned)
        /\ UNCHANGED <<fs, now, ticks, probe, notCacheVars>>

\* clear_cache(store_name)
clear_cache(storeArg) ==
    LET targets == IF cacheDirExists THEN clear_targets(disk, storeArg) ELSE {}
        removed == clear_removed(disk, storeArg, cacheDirExists, fs)
    IN  /\ disk' = Unlink(disk, removed)
        /\ lastOp' = LogOutcome(LogOp("clear", storeArg, None, None, None,
                                      Cardinality(removed)),
                                None, removed # targets)
        /\ probe' = FollowClear(storeArg)
        /\ UNCHANGED <<cacheDirExists, fs, now, ticks, notCacheVars>>

\* the clock advances
Tick(hours) ==
    /\ ticks < MaxTicks
    /\ now' = now + hours
    /\ ticks' = ticks + 1
    /\ lastOp' = LogOp("tick", None, None, None, None, 0)
    /\ UNCHANGED <<disk, cacheDirExists, fs, probe, notCacheVars>>

-----------------------------------------------------------------------------
(* The inputs of select: bounded lists of offers *)

\* the longest offer list handed to select
MaxOffers == 2

T_NM      == <<"N","M">>
T_Damaged == <<"D","a","m","a","g","e","d">>
T_Good    == <<"G","o","o","d">>

\* condition texts on offers: one of high rank, one of the lowest rank, one
\* that is no rank at all
OfferConditions == {T_NM, T_Damaged, T_Good}

\* prices in cents
OfferPrices == {149, 199}

T_StoreX == <<"S","t","o","r","e","X">>
T_Bolt   == <<"b","o","l","t">>

\* Offer(store, card, set, condition, price, url, foil, availability, query)
Offer(condition, price, foil, availability) ==
    [store |-> T_StoreX, card |-> T_Bolt, set |-> <<>>, condition |-> condition,
     price |-> price, url |-> <<>>, foil |-> foil, availability |-> availability,
     query |-> <<>>]

OfferPool ==
    {Offer(c, p, f, a) : c \in OfferConditions, p \in OfferPrices,
                         f \in BOOLEAN, a \in BOOLEAN}

OfferLists == UNION {[1..n -> OfferPool] : n \in 0..MaxOffers}

\* Optional[CardQuality]
Floors == {None} \cup {Some(q) : q \in CardQuality}

\* the other lists with the same elements: the list in every order
Reorderings(xs) ==
    {[i \in DOMAIN xs |-> xs[f[i]]] :
        f \in {g \in [DOMAIN xs -> DOMAIN xs] :
                  \A i, j \in DOMAIN xs : g[i] = g[j] => i = j}}

\* offers that are in stock and meet the floor
Survivors(floor, xs) ==
    {o \in Range(xs) : o.availability /\ meets_minimum_quality(o.condition, floor)}

IsCheapestOf(o, S) == o \in S /\ \A x \in S : o.price <= x.price
IsPriciestOf(o, S) == o \in S /\ \A x \in S : o.price >= x.price

-----------------------------------------------------------------------------
(* The cache is idle in the selection specification and the other way round *)

CacheIdle ==
    /\ disk = <<>>
    /\ cacheDirExists = FALSE
    /\ fs = FsWorks
    /\ now = 0
    /\ ticks = 0
    /\ lastOp = LogOp("init", None, None, None, None, 0)
    /\ probe = None

SelectIdle ==
    /\ offers = <<>>
    /\ strategy = "cheapest"
    /\ min_quality = None
    /\ selected = None
    /\ selPc = "input"

QualityIdle ==
    /\ condText = <<>>
    /\ verdicts = <<>>

DriverIdle ==
    /\ cards = <<>>
    /\ card_offers = <<>>
    /\ driverCall = None
    /\ selected_offers = <<>>
    /\ log = <<>>

AggregatorIdle ==
    /\ site = <<>>
    /\ aggCall = None
    /\ aggOutcome = "none"

SearchIdle == lastSearch = None

\* the workers that save to the one cache file
ConcSavers == {"w1", "w2"}

SaverIdle == [pc |-> "idle", offset |-> 0, doc |-> <<>>]
LoaderIdle == [pc |-> "idle", buf |-> <<>>, ret |-> None, warned |-> FALSE]

ConstructIdle == built = None

ConcIdle ==
    /\ cacheFile = None
    /\ savers = [w \in ConcSavers |-> SaverIdle]
    /\ loader = LoaderIdle

-----------------------------------------------------------------------------
(* Specification SpecSelect: strategy.select(offers) on every bounded input *)

SelInit ==
    /\ CacheIdle
    /\ QualityIdle
    /\ DriverIdle
    /\ AggregatorIdle
    /\ SearchIdle
    /\ ConcIdle
    /\ ConstructIdle
    /\ offers \in OfferLists
    /\ strategy = "cheapest"
    /\ min_quality = None
    /\ selected = None
    /\ selPc = "input"

\* strategy = get_strategy(name, floor); best_offer = strategy.select(offers)
Select(name, floor) ==
    /\ selPc = "input"
    /\ strategy' = name
    /\ min_quality' = floor
    /\ selected' = select(name, floor, offers)
    /\ selPc' = "done"
    /\ UNCHANGED <<offers, notSelVars>>

SelNext == \E name \in AVAILABLE_STRATEGIES, floor \in Floors : Select(name, floor)

SpecSelect == SelInit /\ [][SelNext]_vars

-----------------------------------------------------------------------------
(* Specification SpecQuality: meets_minimum_quality on condition texts *)

T_Unknown == <<"U","n","k","n","o","w","n">>
T_Proxy   == <<"P","r","o","x","y">>

\* condition texts: the spellings the stores produce (CONDITION_MAP of
\* TopDeckHero, 'Unknown', 'Proxy'), abbreviations, other letter cases and
\* padding, the empty text, and texts that are no condition
ConditionTexts ==
    { <<>>,
      T_NM, <<"n","m">>, <<" ","N","M"," ">>,
      <<"N","e","a","r"," ","M","i","n","t">>,
      <<"M","i","n","t">>, <<"M">>,
      <<"L","P">>, <<"L","i","g","h","t","l","y"," ","P","l","a","y","e","d">>,
      <<"M","P">>,
      <<"M","o","d","e","r","a","t","e","l","y"," ","P","l","a","y","e","d">>,
      <<"P","l","a","y","e","d">>, <<"P","L">>, <<"p">>,
      <<"H","P">>, <<"H","e","a","v","i","l","y"," ","P","l","a","y","e","d">>,
      T_Damaged, <<"D","M","G">>,
      T_Good, T_Unknown, T_Proxy,
      <<"H","e","a","v","y"," ","P","l","a","y","e","d">>,
      <<"N","M","-","M","i","n","t">>,
      <<"N","e","a","r"," "," ","M","i","n","t">> }

QualInit ==
    /\ CacheIdle
    /\ SelectIdle
    /\ DriverIdle
    /\ AggregatorIdle
    /\ SearchIdle
    /\ ConcIdle
    /\ ConstructIdle
    /\ condText \in ConditionTexts
    /\ verdicts = <<>>

\* one call meets_minimum_quality(condText, floor), for a floor not yet tried
MeetsFloor(floor) ==
    /\ floor \notin DOMAIN verdicts
    /\ verdicts' = [f \in DOMAIN verdicts \cup {floor} |->
                       IF f = floor THEN meets_minimum_quality(condText, floor)
                       ELSE verdicts[f]]
    /\ UNCHANGED <<condText, notQualVars>>

QualNext == \E floor \in Floors : MeetsFloor(floor)

SpecQuality == QualInit /\ [][QualNext]_vars

-----------------------------------------------------------------------------
(* Specification SpecDriver: select_best_offers on bounded inputs *)

\* the longest list of cards requested
MaxCards == 2

\* Card(name, set, qty)
Card(name, qty) == [name |-> name, set |-> <<>>, qty |-> qty]

CardNames == {T_Bolt, T_FireIce_slash}
CardQtys  == {1, 4}
\* the cards asked: bolt once or four times, Fire/Ice once
CardPool  == {c \in {Card(n, q) : n \in CardNames, q \in CardQtys} :
                  c.name = T_Bolt \/ c.qty = 1}
CardLists == UNION {[1..n -> CardPool] : n \in 1..MaxCards}

\* the offer lists found for a card: a cheap Damaged offer, a Near Mint
\* offer and a dearer Near Mint foil, alone and in pairs
O_Damaged149 == Offer(T_Damaged, 149, FALSE, TRUE)
O_NM199      == Offer(T_NM, 199, FALSE, TRUE)
O_NMFoil249  == Offer(T_NM, 249, TRUE, TRUE)
FoundLists ==
    { <<>>, <<O_Damaged149>>, <<O_NM199>>,
      <<O_Damaged149, O_NM199>>, <<O_NM199, O_Damaged149>>,
      <<O_NM199, O_NMFoil249>> }

\* card_offers: a dict with some of the card names as keys
CardOfferDicts == UNION {[S -> FoundLists] : S \in SUBSET CardNames}

\* the strategy_name argument: registered names, one in capitals, the
\* empty name and names that are not registered
T_priciest_premium == <<"p","r","i","c","i","e","s","t","-","p","r","e","m","i","u","m">>
T_bogus == <<"b","o","g","u","s">>
StrategyNameArgs ==
    { T_cheapest, <<"B","L","I","N","G","I","E","S","T">>, <<"c","h","e","a","p","e","s","t","-","f","o","i","l">>,
      <<"b","e","s","t","-","c","o","n","d","i","t","i","o","n">>,
      <<"f","o","i","l","-","f","i","r","s","t","-","c","h","e","a","p","e","s","t">>,
      T_priciest_premium, T_bogus, <<>> }

\* the min_quality argument
DriverFloors == {None, Some(LIGHTLY_PLAYED)}

DrvInit ==
    /\ CacheIdle
    /\ SelectIdle
    /\ QualityIdle
    /\ AggregatorIdle
    /\ SearchIdle
    /\ ConcIdle
    /\ ConstructIdle
    /\ cards \in CardLists
    /\ card_offers \in CardOfferDicts
    /\ driverCall = None
    /\ selected_offers = <<>>
    /\ log = <<>>

\* selected = select_best_offers(card_offers, cards, strategy_name, min_quality)
SelectBest(name, floor) ==
    \E out \in {select_best_offers(card_offers, cards, name, floor)} :
        /\ driverCall = None
        /\ driverCall' = Some([strategy_name |-> name, min_quality |-> floor])
        /\ selected_offers' = out.selected_offers
        /\ log' = out.log
        /\ UNCHANGED <<cards, card_offers, notDrvVars>>

DrvNext == \E name \in StrategyNameArgs, floor \in DriverFloors : SelectBest(name, floor)

SpecDriver == DrvInit /\ [][DrvNext]_vars

-----------------------------------------------------------------------------
(* stores/topdeckhero.py: TopDeckHeroScraper.search *)

\* search's default max_pages
MAX_PAGES == 2

T_NearMint == <<"N","e","a","r"," ","M","i","n","t">>

\* the Offer that _parse_variant builds from one listing: query is not
\* passed and keeps its default, the empty text
ParsedOffer(product_name, price, foil) ==
    [store |-> T_TopDeckHero, card |-> product_name, set |-> <<>>,
     condition |-> T_NearMint, price |-> price, url |-> <<>>, foil |-> foil,
     availability |-> TRUE, query |-> <<>>]

\* _serialize_offers: a dict of eight fields for each offer
serialize_offer(o) ==
    [store |-> o.store, card |-> o.card, set |-> o.set, condition |-> o.condition,
     price |-> o.price, url |-> o.url, foil |-> o.foil,
     availability |-> o.availability]
serialize_offers(xs) == [i \in DOMAIN xs |-> serialize_offer(xs[i])]

\* a _deserialize_offers that reads seven fields and leaves foil at its default
deserialize_offer_NoFoil(item) ==
    [store |-> item.store, card |-> item.card, set |-> item.set,
     condition |-> item.condition, price |-> item.price, url |-> item.url,
     foil |-> FALSE, availability |-> item.availability, query |-> <<>>]

\* _deserialize_offers: an Offer from the eight fields of each dict, query
\* at its default
deserialize_offer(item) ==
    [store |-> item.store, card |-> item.card, set |-> item.set,
     condition |-> item.condition, price |-> item.price, url |-> item.url,
     foil |-> item.foil, availability |-> item.availability, query |-> <<>>]
deserialize_offers(data) == [i \in DOMAIN data |-> deserialize_offer(data[i])]

\* _deserialize_offers finds the fields it reads in every dict
CanDeserialize(data) ==
    \A i \in DOMAIN data :
        {"store", "card", "set", "condition", "price", "url", "foil", "availability"}
            \subseteq DOMAIN data[i]

\* the loop over pages: one request per page until a page has no listing; a
\* request that fails raises.  answer[i] is what the site gives for page i,
\* None for a failed request
RECURSIVE fetch_pages(_, _, _)
fetch_pages(answer, page_num, all_offers) ==
    IF page_num > MAX_PAGES
    THEN [raised |-> FALSE, offers |-> all_offers, requests |-> page_num - 1]
    ELSE LET page == IF page_num \in DOMAIN answer THEN answer[page_num] ELSE Some(<<>>)
         IN  IF page = None
             THEN [raised |-> TRUE, offers |-> <<>>, requests |-> page_num]
             ELSE IF Get(page) = <<>>
             THEN [raised |-> FALSE, offers |-> all_offers, requests |-> page_num]
             ELSE fetch_pages(answer, page_num + 1, all_offers \o Get(page))

SearchResult(ret, d, dirExists, requests, hit, error) ==
    [ret |-> ret, disk |-> d, dirExists |-> dirExists, requests |-> requests,
     hit |-> hit, error |-> error]

\* TopDeckHeroScraper(use_cache).search(card): the list returned, the cache
\* directory left, the number of requests made, whether the cache answered
\* and whether an exception was caught and logged
search_outcome(d, dirExists, fsrec, card, use_cache, answer, t) ==
    LET cache_path == PathOf(T_TopDeckHero, card.name)
        loaded  == load_outcome(d, dirExists, fsrec, cache_path, t)
        d1      == IF use_cache THEN loaded.disk ELSE d
        exists1 == IF use_cache THEN loaded.dirExists ELSE dirExists
        fetched == fetch_pages(answer, 1, <<>>)
        saved   == save_outcome(d1, exists1, fsrec, cache_path,
                                CacheEntry(t, DEFAULT_TTL_HOURS,
                                           serialize_offers(fetched.offers)))
    IN  IF use_cache /\ loaded.raised # None
        THEN SearchResult(<<>>, d, dirExists, 0, FALSE, TRUE)
        ELSE IF use_cache /\ loaded.ret # None /\ Get(loaded.ret) # <<>>
        THEN IF CanDeserialize(Get(loaded.ret))
             THEN SearchResult(deserialize_offers(Get(loaded.ret)), d1, exists1,
                               0, TRUE, FALSE)
             ELSE SearchResult(<<>>, d1, exists1, 0, TRUE, TRUE)
        ELSE IF fetched.raised
        THEN SearchResult(<<>>, d1, exists1, fetched.requests, FALSE, TRUE)
        ELSE IF use_cache /\ fetched.offers # <<>>
        THEN IF saved.raised # None
             THEN SearchResult(<<>>, saved.disk, saved.dirExists, fetched.requests,
                               FALSE, TRUE)
             ELSE SearchResult(fetched.offers, saved.disk, saved.dirExists,
                               fetched.requests, FALSE, FALSE)
        ELSE SearchResult(fetched.offers, d1, exists1, fetched.requests, FALSE, FALSE)

\* offers = TopDeckHeroScraper(use_cache=use_cache).search(card), the site
\* answering with answer
Search(card, use_cache, answer) ==
    LET out == search_outcome(disk, cacheDirExists, fs, card, use_cache, answer, now)
    IN  /\ disk' = out.disk
        /\ cacheDirExists' = out.dirExists
        /\ lastSearch' = Some([card |-> card, use_cache |-> use_cache,
                               answer |-> answer, ret |-> out.ret, requests |-> out.requests,
                               hit |-> out.hit, error |-> out.error, at |-> now,
                               seq |-> IF lastSearch = None THEN 0
                                       ELSE 1 - Get(lastSearch).seq])
        /\ lastOp' = LogOutcome(LogOp("search", Some(T_TopDeckHero), Some(card.name),
                                      None, None, 0),
                                None, out.error)
        /\ UNCHANGED <<fs, now, ticks, probe, notSearchVars>>

-----------------------------------------------------------------------------
(* Specification SpecAggregate: search_all_stores in a world of two sites *)

\* the keys of the scrapers dict
ScraperKeys == {"facetoface", "topdeckhero"}

\* the offer a store's site lists for a card
SiteOffer(key, card_name) ==
    [store |-> IF key = "topdeckhero" THEN T_TopDeckHero ELSE T_FaceToFaceGames,
     card |-> card_name, set |-> <<>>, condition |-> T_NM,
     price |-> IF key = "topdeckhero" THEN 149 ELSE 199,
     url |-> <<>>, foil |-> FALSE, availability |-> TRUE, query |-> <<>>]

\* what a site answers to a search: the request fails, no listing, one listing
SiteAnswers(key, card_name) == {None, Some(<<>>), Some(<<SiteOffer(key, card_name)>>)}

Sites ==
    {w \in [ScraperKeys \X CardNames -> {None, Some(<<>>)} \cup
                {Some(<<SiteOffer(k, n)>>) : k \in ScraperKeys, n \in CardNames}] :
        \A k \in ScraperKeys, n \in CardNames : w[<<k, n>>] \in SiteAnswers(k, n)}

\* the store_filter argument: none, one store, both, a name that is no store
StoreFilterArgs ==
    {"", "topdeckhero", "facetoface", "facetoface,topdeckhero", "nostore"}

\* FaceToFaceScraper.__init__(self) called with the keyword arguments given:
\* it accepts none, so any keyword raises TypeError (None here)
FaceToFaceScraper_init(kwargs) ==
    IF kwargs = {} THEN Some([store |-> T_FaceToFaceGames]) ELSE None

\* TopDeckHeroScraper.__init__(self, use_cache=True, apply_discount=False)
TopDeckHeroScraper_init(use_cache) ==
    Some([store |-> T_TopDeckHero, use_cache |-> use_cache, apply_discount |-> FALSE])

AggInit ==
    /\ CacheIdle
    /\ SelectIdle
    /\ QualityIdle
    /\ cards \in CardLists
    /\ card_offers = <<>>
    /\ driverCall = None
    /\ selected_offers = <<>>
    /\ log = <<>>
    /\ site \in Sites
    /\ aggCall = None
    /\ aggOutcome = "none"
    /\ SearchIdle
    /\ ConcIdle
    /\ ConstructIdle

\* card_offers = search_all_stores(cards, store_filter, use_cache).  The dict
\* of scrapers is built first, FaceToFaceScraper(use_cache=use_cache) raises
\* TypeError there, and the filter and the loops over cards and stores that
\* follow are not reached: the call ends with the exception, whatever the
\* store_filter.
search_all_stores(store_filter, use_cache) ==
    LET facetoface  == FaceToFaceScraper_init({"use_cache"})
    IN  /\ aggCall = None
        /\ facetoface = None
        /\ aggCall' = Some([store_filter |-> store_filter, use_cache |-> use_cache])
        /\ aggOutcome' = "TypeError"
        /\ UNCHANGED <<site, drvVars, notAggVars>>

AggNext ==
    \E store_filter \in StoreFilterArgs, use_cache \in BOOLEAN :
        search_all_stores(store_filter, use_cache)

SpecAggregate == AggInit /\ [][AggNext]_vars

-----------------------------------------------------------------------------
(* Specification Spec: the cache operations in any order, as time passes *)

Init ==
    /\ CacheIdle
    /\ SelectIdle
    /\ QualityIdle
    /\ DriverIdle
    /\ AggregatorIdle
    /\ SearchIdle
    /\ ConcIdle
    /\ ConstructIdle

Next ==
    \/ \E s \in Stores, c \in Cards, ttlArg \in TtlArgs :
         \E data \in Payloads(s) : save_to_cache(s, c, data, ttlArg)
    \/ \E s \in Stores, c \in Cards : load_from_cache(s, c)
    \/ \E storeArg \in {None} \cup {Some(s) : s \in Stores} : clear_cache(storeArg)
    \/ \E hours \in TickHours : Tick(hours)

Spec == Init /\ [][Next]_vars

-----------------------------------------------------------------------------
(* Specification SpecSearch: searches of TopDeckHero as time passes *)

\* the cards searched: two names that get_cache_path gives one file
SearchCards == {Card(T_FireIce_slash, 1), Card(T_FireIce_space, 1)}

P_149     == ParsedOffer(T_FireIce_slash, 149, FALSE)
P_199     == ParsedOffer(T_FireIce_slash, 199, FALSE)
P_Foil249 == ParsedOffer(T_FireIce_slash, 249, TRUE)

\* what the site answers, page by page: the first request fails; no listing;
\* one listing on one page; listings on two pages; a listing and then a
\* failed request
SearchAnswers ==
    { <<None>>,
      <<Some(<<>>)>>,
      <<Some(<<P_149>>), Some(<<>>)>>,
      <<Some(<<P_199>>), Some(<<P_Foil249>>)>>,
      <<Some(<<P_149>>), None>> }

SearchNext ==
    \/ \E card \in SearchCards, use_cache \in BOOLEAN, answer \in SearchAnswers :
          Search(card, use_cache, answer)
    \/ \E hours \in TickHours : Tick(hours)

SpecSearch == Init /\ [][SearchNext]_vars

-----------------------------------------------------------------------------
(* Specification SpecFault: one cache key on a file system that fails *)

\* the states of the file system: it works, or one kind of call fails
FsStates ==
    {FsWorks} \cup {[FsWorks EXCEPT ![k] = FALSE] : k \in DOMAIN FsWorks}

\* the key, the card and the payloads: one list of offers, and one that
\* json.dump cannot serialize
FaultCard == Card(T_FireIce_slash, 1)
Unserializable == <<[unserializable |-> TRUE]>>
FaultPayloads == {<<SerializedOffer(T_TopDeckHero, 149)>>, Unserializable}
FaultAnswers == {<<None>>, <<Some(<<P_149>>), Some(<<>>)>>}

\* what a damaged cache file holds: text that is no JSON, an entry without
\* "timestamp", an entry without "data"
DamagedContents(t) ==
    { <<"text", [garbage |-> TRUE]>>,
      json_dump([ttl_hours |-> DEFAULT_TTL_HOURS,
                 data |-> <<SerializedOffer(T_TopDeckHero, 149)>>]),
      json_dump([timestamp |-> isoformat(t), ttl_hours |-> DEFAULT_TTL_HOURS]) }

\* the environment: the file system starts or stops failing
SetFs(f) ==
    /\ f # fs
    /\ fs' = f
    /\ lastOp' = LogOp("env", None, None, None, None, 0)
    /\ UNCHANGED <<disk, cacheDirExists, now, ticks, probe, notCacheVars>>

\* the environment: the cache file of the key is damaged
Damage(content) ==
    LET cache_path == PathOf(T_TopDeckHero, FaultCard.name)
    IN  /\ cache_path \in DOMAIN disk
        /\ disk' = WriteFile(disk, cache_path, content)
        /\ lastOp' = LogOp("env", None, None, None, None, 0)
        /\ UNCHANGED <<cacheDirExists, fs, now, ticks, probe, notCacheVars>>

FaultNext ==
    \/ \E data \in FaultPayloads :
          save_to_cache(T_TopDeckHero, FaultCard.name, data, None)
    \/ load_from_cache(T_TopDeckHero, FaultCard.name)
    \/ \E answer \in FaultAnswers : Search(FaultCard, TRUE, answer)
    \/ \E f \in FsStates : SetFs(f)
    \/ \E content \in DamagedContents(now) : Damage(content)
    \/ \E hours \in TickHours : Tick(hours)

SpecFault == Init /\ [][FaultNext]_vars

-----------------------------------------------------------------------------
(* Specification SpecConc: workers saving and loading one cache key at once *)

\* caching.py takes no lock and writes the cache file in place, so the file
\* steps of workers on one key interleave freely.  A document larger than
\* the buffer of the file object reaches the file in several writes, each at
\* the writer's own offset: here in two blocks, the first with the head of
\* the entry and the first offer, the second with the second offer and the
\* closing brackets.  The clock stands still, so no entry expires and the
\* unlink of line 97 is not reached.

\* what each worker saves: two offers at the prices it fetched
ConcPayload(w) ==
    IF w = "w1"
    THEN <<SerializedOffer(T_TopDeckHero, 149), SerializedOffer(T_TopDeckHero, 199)>>
    ELSE <<SerializedOffer(T_TopDeckHero, 249), SerializedOffer(T_TopDeckHero, 299)>>

\* json.dump(cache_entry, f, indent=2) as the writes that reach the file
json_dump_blocks(cache_entry) ==
    << [block |-> "head",
        entry |-> Some([timestamp |-> cache_entry.timestamp,
                        ttl_hours |-> cache_entry.ttl_hours]),
        data |-> SubSeq(cache_entry.data, 1, 1)],
       [block |-> "tail", entry |-> None,
        data |-> SubSeq(cache_entry.data, 2, Len(cache_entry.data))] >>

\* the bytes never written before a write past the end of the file
Hole == [block |-> "hole", entry |-> None, data |-> <<>>]

\* f.write of one block at an offset of the file
WriteAt(text, offset, block) ==
    LET end == IF Len(text) > offset + 1 THEN Len(text) ELSE offset + 1
    IN  [i \in 1..end |-> IF i = offset + 1 THEN block
                          ELSE IF i <= Len(text) THEN text[i] ELSE Hole]

\* json.load accepts the text: a head block followed by a tail block
IsJsonText(text) ==
    /\ Len(text) = 2
    /\ text[1].block = "head"
    /\ text[2].block = "tail"

\* json.load(f) of such a text
json_load_blocks(text) ==
    [timestamp |-> Get(text[1].entry).timestamp,
     ttl_hours |-> Get(text[1].entry).ttl_hours,
     data |-> text[1].data \o text[2].data]

\* save_to_cache, line 60: open(cache_path, 'w') creates or truncates the file
SaveOpen(w) ==
    /\ savers[w].pc = "idle"
    /\ cacheFile' = Some(<<>>)
    /\ savers' = [savers EXCEPT ![w] =
                     [pc |-> "writing", offset |-> 0,
                      doc |-> json_dump_blocks(CacheEntry(now, DEFAULT_TTL_HOURS,
                                                          ConcPayload(w)))]]
    /\ UNCHANGED <<loader, notConcVars>>

\* save_to_cache, line 61: one write of json.dump reaches the file
SaveWrite(w) ==
    /\ savers[w].pc = "writing"
    /\ savers[w].offset < Len(savers[w].doc)
    /\ cacheFile' = Some(WriteAt(Get(cacheFile), savers[w].offset,
                                 savers[w].doc[savers[w].offset + 1]))
    /\ savers' = [savers EXCEPT ![w].offset = @ + 1]
    /\ UNCHANGED <<loader, notConcVars>>

\* save_to_cache, the end of the with block: the file is closed
SaveClose(w) ==
    /\ savers[w].pc = "writing"
    /\ savers[w].offset = Len(savers[w].doc)
    /\ savers' = [savers EXCEPT ![w] = SaverIdle]
    /\ UNCHANGED <<cacheFile, loader, notConcVars>>

\* load_from_cache, lines 83-84: cache_path.exists()
LoadExists ==
    /\ loader.pc \in {"idle", "returned"}
    /\ loader' = IF cacheFile = None
                 THEN [LoaderIdle EXCEPT !.pc = "returned"]
                 ELSE [LoaderIdle EXCEPT !.pc = "opened"]
    /\ UNCHANGED <<cacheFile, savers, notConcVars>>

\* load_from_cache, lines 86-87: the file is opened and read
LoadRead ==
    /\ loader.pc = "opened"
    /\ loader' = [loader EXCEPT !.pc = "read", !.buf = Get(cacheFile)]
    /\ UNCHANGED <<cacheFile, savers, notConcVars>>

\* load_from_cache, lines 87-107: the text is parsed and the data returned,
\* or the exception of json.load is caught and None returned
LoadParse ==
    /\ loader.pc = "read"
    /\ loader' = IF IsJsonText(loader.buf)
                 THEN [loader EXCEPT !.pc = "returned",
                                     !.ret = Some(json_load_blocks(loader.buf).data)]
                 ELSE [loader EXCEPT !.pc = "returned", !.warned = TRUE]
    /\ UNCHANGED <<cacheFile, savers, notConcVars>>

ConcNext ==
    \/ \E w \in ConcSavers : SaveOpen(w)
    \/ \E w \in ConcSavers : SaveWrite(w)
    \/ \E w \in ConcSavers : SaveClose(w)
    \/ LoadExists
    \/ LoadRead
    \/ LoadParse

SpecConc == Init /\ [][ConcNext]_vars

-----------------------------------------------------------------------------
(* Specification SpecRace: one worker saving a key while another loads it, *)
(* as time passes                                                          *)

\* The steps of SpecConc for one saver and the loader, with the clock
\* running: the loader tests the age of the entry it has read (line 94)
\* and removes the file of a stale one (line 97) in a later step.  The file
\* system is POSIX: unlink removes the name, and a saver that holds the file
\* open goes on writing to a file that no name leads to.

RaceSaver == "w1"

\* load_from_cache, lines 87-102: the text is parsed; the data of a young
\* entry is returned, a stale entry is to be removed, and the exception of
\* json.load is caught and None returned
LoadCheck ==
    /\ loader.pc = "read"
    /\ loader' = IF ~IsJsonText(loader.buf)
                 THEN [loader EXCEPT !.pc = "returned", !.warned = TRUE]
                 ELSE IF IsExpired(json_load_blocks(loader.buf), now)
                 THEN [loader EXCEPT !.pc = "stale"]
                 ELSE [loader EXCEPT !.pc = "returned",
                                     !.ret = Some(json_load_blocks(loader.buf).data)]
    /\ UNCHANGED <<cacheFile, savers, notConcVars>>

\* load_from_cache, lines 96-100: cache_path.unlink(), then return None
LoadUnlink ==
    /\ loader.pc = "stale"
    /\ cacheFile' = None
    /\ savers' = [w \in ConcSavers |->
                     IF savers[w].pc = "writing"
                     THEN [savers[w] EXCEPT !.pc = "detached"]
                     ELSE savers[w]]
    /\ loader' = [loader EXCEPT !.pc = "returned", !.warned = (cacheFile = None)]
    /\ UNCHANGED notConcVars

\* save_to_cache, line 61: a write of json.dump to a file that was unlinked
SaveWriteDetached(w) ==
    /\ savers[w].pc = "detached"
    /\ savers[w].offset < Len(savers[w].doc)
    /\ savers' = [savers EXCEPT ![w].offset = @ + 1]
    /\ UNCHANGED <<cacheFile, loader, notConcVars>>

\* the load in progress has read an entry that is stale by now
LoaderHoldsStale ==
    \/ loader.pc = "stale"
    \/ /\ loader.pc = "read"
       /\ IsJsonText(loader.buf)
       /\ IsExpired(json_load_blocks(loader.buf), now)

\* save_to_cache returns, lines 61-64.  Observer: probe keeps the save that
\* returned last, and whether a load that had read a stale entry was in
\* progress when it returned
SaveReturn(w) ==
    /\ savers[w].pc \in {"writing", "detached"}
    /\ savers[w].offset = Len(savers[w].doc)
    /\ savers' = [savers EXCEPT ![w] = SaverIdle]
    /\ probe' = Some([store |-> T_TopDeckHero, card |-> T_FireIce_slash,
                      data |-> ConcPayload(w),
                      ttl |-> Get(savers[w].doc[1].entry).ttl_hours,
                      at |-> fromisoformat(Get(savers[w].doc[1].entry).timestamp),
                      overlapped |-> LoaderHoldsStale])
    /\ UNCHANGED <<cacheFile, loader, disk, cacheDirExists, fs, now, ticks, lastOp,
                   notCacheConcVars>>

RaceNext ==
    \/ SaveOpen(RaceSaver)
    \/ SaveWrite(RaceSaver)
    \/ SaveWriteDetached(RaceSaver)
    \/ SaveReturn(RaceSaver)
    \/ LoadExists
    \/ LoadRead
    \/ LoadCheck
    \/ LoadUnlink
    \/ \E hours \in TickHours : Tick(hours)

SpecRace == Init /\ [][RaceNext]_vars

-----------------------------------------------------------------------------
(* Specification SpecConstruct: Card and Offer built from bounded arguments *)

\* names and store names: empty, blank, and plain
T_blank == <<" ">>
NameArgs == {<<>>, T_blank, T_Bolt}
StoreArgs == {<<>>, T_StoreX}
SetArgs == {None, Some(<<"M","1","1">>)}
QtyArgs == {-1, 0, 1, 4}
PriceArgs == {-149, -1, 0, 1, 149}

NewCard(name, set, qty) ==
    /\ built' = Some([class |-> "Card", name |-> name, set |-> set, qty |-> qty,
                      out |-> Card_init(name, set, qty)])
    /\ UNCHANGED notBuiltVars

NewOffer(store, card, price, foil, availability) ==
    /\ built' = Some([class |-> "Offer", store |-> store, card |-> card,
                      price |-> price, foil |-> foil,
                      availability |-> availability,
                      out |-> Offer_init(store, card, <<>>, T_NM, price, <<>>,
                                         foil, availability, <<>>)])
    /\ UNCHANGED notBuiltVars

ConstructNext ==
    \/ \E name \in NameArgs, set \in SetArgs, qty \in QtyArgs : NewCard(name, set, qty)
    \/ \E store \in StoreArgs, card \in NameArgs, price \in PriceArgs,
          foil \in BOOLEAN, availability \in BOOLEAN :
          NewOffer(store, card, price, foil, availability)

SpecConstruct == Init /\ [][ConstructNext]_vars

-----------------------------------------------------------------------------
(* Claims about the cache, checked under Spec *)

\* the last operation was load_from_cache(s, c)
LoadedKey(op, s, c) ==
    op.kind = "load" /\ op.store = Some(s) /\ op.card = Some(c)

\* the "timestamp", "ttl_hours" and "data" written in a cache file
StoredAt(d, path)  == d[path][2].timestamp[2]
StoredTtl(d, path) == d[path][2].ttl_hours
StoredData(d, path) == d[path][2].data

\* C1: a load_from_cache(source, name) made after save_to_cache(source, name,
\* payload, ttl), while the entry is not older than ttl and with no put or
\* invalidate on that (source, name) in between, returns the payload written.
C1_RoundTrip ==
    probe # None =>
        LET w == Get(probe)
        IN  LoadedKey(lastOp, w.store, w.card) /\ now - w.at <= w.ttl
                => lastOp.ret = Some(w.data)

\* for reference: per cache file the round trip holds.  A load of a key whose
\* file holds an entry not older than its ttl_hours returns the data in that
\* file and leaves the directory as it was, and a save puts its data in the
\* file of its key.
RoundTripPerFile ==
    [][LET path == PathOf(Get(lastOp'.store), Get(lastOp'.card))
       IN  /\ ( /\ lastOp'.kind = "load"
                /\ path \in DOMAIN disk
                /\ now - StoredAt(disk, path) <= StoredTtl(disk, path) )
              => lastOp'.ret = Some(StoredData(disk, path)) /\ disk' = disk
           /\ lastOp'.kind = "save"
              => /\ path \in DOMAIN disk'
                 /\ probe' # None
                 /\ Get(probe').store = Get(lastOp'.store)
                        /\ Get(probe').card = Get(lastOp'.card)
                     => StoredData(disk', path) = Get(probe').data
      ]_vars

\* C2: a load_from_cache made when now - timestamp > ttl_hours of the stored
\* entry returns None and removes the entry's file; the ttl_hours stored is
\* the one the writer gave, 24 when it gave none, and the timestamp is the
\* time of the write.
C2_ExpiredLoadEvicts ==
    [][LET path == PathOf(Get(lastOp'.store), Get(lastOp'.card))
       IN  /\ ( /\ lastOp'.kind = "load"
                /\ path \in DOMAIN disk
                /\ now - StoredAt(disk, path) > StoredTtl(disk, path) )
              => lastOp'.ret = None /\ path \notin DOMAIN disk'
           /\ lastOp'.kind = "save"
              => /\ path \in DOMAIN disk'
                 /\ StoredAt(disk', path) = now
                 /\ StoredTtl(disk', path) =
                       (IF lastOp'.ttl = None THEN 24 ELSE Get(lastOp'.ttl))
      ]_vars

\* C2 witness: an entry saved with ttl 1 hour, the clock two hours on, a load
\* of its key has returned None and no file is left for the key.
C2_Witness ==
    /\ probe # None
    /\ Get(probe).ttl = 1
    /\ now - Get(probe).at = 2
    /\ LoadedKey(lastOp, Get(probe).store, Get(probe).card)
    /\ lastOp.ret = None
    /\ PathOf(Get(probe).store, Get(probe).card) \notin DOMAIN disk

\* for reference: an entry saved with no ttl_hours is evicted by a load 25
\* hours later and not 24 hours later
C2_DefaultTtlWitness ==
    /\ probe # None
    /\ Get(probe).ttl = 24
    /\ now - Get(probe).at = 25
    /\ LoadedKey(lastOp, Get(probe).store, Get(probe).card)
    /\ lastOp.ret = None
    /\ PathOf(Get(probe).store, Get(probe).card) \notin DOMAIN disk

\* the source an entry was written under: the store of the offers saved
WrittenUnder(d, path) == StoredData(d, path)[1].store

\* C17: clear_cache(store_name) removes every entry written under that
\* source and no entry written under another source, clear_cache() removes
\* every entry, and the count returned is the number of entries removed.
C17_ClearBySource ==
    [][ lastOp'.kind = "clear" =>
          LET arg == lastOp'.store
          IN  /\ DOMAIN disk' \subseteq DOMAIN disk
              /\ \A n \in DOMAIN disk :
                     IF arg = None \/ arg = Some(WrittenUnder(disk, n))
                     THEN n \notin DOMAIN disk'
                     ELSE n \in DOMAIN disk' /\ disk'[n] = disk[n]
              /\ lastOp'.count = Cardinality(DOMAIN disk) - Cardinality(DOMAIN disk')
      ]_vars

\* C17 witness: clear_cache("TopDeckHero") has removed one entry and the
\* entry written under FaceToFaceGames is still there.
C17_Witness ==
    /\ lastOp.kind = "clear"
    /\ lastOp.store = Some(T_TopDeckHero)
    /\ lastOp.count = 1
    /\ \E n \in DOMAIN disk : WrittenUnder(disk, n) = T_FaceToFaceGames

\* for reference: clear_cache() with entries of both sources removes both
C17_ClearAllWitness ==
    /\ lastOp.kind = "clear"
    /\ lastOp.store = None
    /\ lastOp.count = 2
    /\ disk = <<>>

-----------------------------------------------------------------------------
(* Claims about select, checked under SpecSelect *)

SelDone == selPc = "done"

\* C3: whatever the strategy, an offer that select returns is an element of
\* the input list, is in stock and meets the strategy's quality floor; with
\* floor Lightly Played a "Damaged" offer is never returned, and cheapest
\* returns the dearer Near Mint offer when the cheaper one is "Damaged".
C3_SelectedSurvivesFloor ==
    SelDone /\ selected # None =>
        /\ Get(selected) \in Range(offers)
        /\ Get(selected).availability
        /\ meets_minimum_quality(Get(selected).condition, min_quality)
        /\ min_quality = Some(LIGHTLY_PLAYED) =>
               Get(selected).condition # T_Damaged
        /\ ( /\ min_quality = Some(LIGHTLY_PLAYED)
             /\ strategy = "cheapest"
             /\ Range(offers) = {Offer(T_NM, 199, FALSE, TRUE),
                                 Offer(T_Damaged, 149, FALSE, TRUE)} )
           => selected = Some(Offer(T_NM, 199, FALSE, TRUE))

\* C3 witness: floor Lightly Played, a cheaper Damaged offer first in the
\* list, and cheapest has returned the Near Mint offer.
C3_Witness ==
    /\ SelDone
    /\ strategy = "cheapest"
    /\ min_quality = Some(LIGHTLY_PLAYED)
    /\ offers = <<Offer(T_Damaged, 149, FALSE, TRUE), Offer(T_NM, 199, FALSE, TRUE)>>
    /\ selected = Some(Offer(T_NM, 199, FALSE, TRUE))

\* C4: cheapest returns an offer of least price among the offers that are in
\* stock and meet the floor, and returns None exactly when there is none.
C4_CheapestIsMinimum ==
    SelDone /\ strategy = "cheapest" =>
        LET S == Survivors(min_quality, offers)
        IN  /\ selected = None <=> S = {}
            /\ selected # None => IsCheapestOf(Get(selected), S)

\* C4 witness: offers at 1.99 and 1.49, both NM, standard, in stock; the 1.49
\* offer is returned.
C4_Witness ==
    /\ SelDone
    /\ strategy = "cheapest"
    /\ offers = <<Offer(T_NM, 199, FALSE, TRUE), Offer(T_NM, 149, FALSE, TRUE)>>
    /\ selected = Some(Offer(T_NM, 149, FALSE, TRUE))

\* C5: select returns the same offer for every reordering of its input list.
C5_OrderInvariant ==
    SelDone =>
        \A ys \in Reorderings(offers) : select(strategy, min_quality, ys) = selected

\* C6: foil-first-cheapest returns a foil offer of least price among the
\* surviving foil offers when there is one, even if a standard offer is
\* cheaper; otherwise a standard offer of least price; None only when no
\* offer survives.
C6_FoilFirstCheapest ==
    SelDone /\ strategy = "foil-first-cheapest" =>
        LET S     == Survivors(min_quality, offers)
            foils == {o \in S : o.foil}
        IN  /\ foils # {} =>
                 selected # None /\ IsCheapestOf(Get(selected), foils)
            /\ foils = {} /\ S # {} =>
                 /\ selected # None
                 /\ ~Get(selected).foil
                 /\ IsCheapestOf(Get(selected), S)
            /\ selected = None <=> S = {}

\* C6 witness: a standard offer at 1.49 and a foil offer at 1.99 survive, and
\* the foil offer is returned.
C6_Witness ==
    /\ SelDone
    /\ strategy = "foil-first-cheapest"
    /\ offers = <<Offer(T_NM, 149, FALSE, TRUE), Offer(T_NM, 199, TRUE, TRUE)>>
    /\ selected = Some(Offer(T_NM, 199, TRUE, TRUE))

\* the condition texts that resolve to Near Mint or better
IsNearMintOrBetter(condition) ==
    from_string(condition) \in {Some(NEAR_MINT), Some(MINT)}

\* C7: best-condition returns an offer of least price among the surviving
\* offers whose condition is Near Mint or better, never an offer whose
\* condition resolves to a lower rank, and None when no such offer survives.
C7_BestConditionIsNearMint ==
    SelDone /\ strategy = "best-condition" =>
        LET S == {o \in Survivors(min_quality, offers) :
                     IsNearMintOrBetter(o.condition)}
        IN  /\ S = {} => selected = None
            /\ S # {} => selected # None /\ IsCheapestOf(Get(selected), S)

\* C8: cheapest-foil (cheapest-nonfoil) returns an offer of least price among
\* the surviving foil (standard) offers, never one of the other variant, and
\* None when no surviving offer is of the required variant.
C8_CheapestOfVariant ==
    /\ SelDone /\ strategy = "cheapest-foil" =>
         LET S == {o \in Survivors(min_quality, offers) : o.foil}
         IN  /\ selected = None <=> S = {}
             /\ selected # None => IsCheapestOf(Get(selected), S)
    /\ SelDone /\ strategy = "cheapest-nonfoil" =>
         LET S == {o \in Survivors(min_quality, offers) : ~o.foil}
         IN  /\ selected = None <=> S = {}
             /\ selected # None => IsCheapestOf(Get(selected), S)

\* C8 witness: only a standard offer survives and cheapest-foil returns None.
C8_Witness ==
    /\ SelDone
    /\ strategy = "cheapest-foil"
    /\ offers = <<Offer(T_NM, 149, FALSE, TRUE), Offer(T_NM, 199, TRUE, FALSE)>>
    /\ selected = None

\* C9: blingiest returns an offer of greatest price among the surviving foil
\* offers, and None when there is none.
C9_BlingiestIsMaximum ==
    SelDone /\ strategy = "blingiest" =>
        LET S == {o \in Survivors(min_quality, offers) : o.foil}
        IN  /\ selected = None <=> S = {}
            /\ selected # None => IsPriciestOf(Get(selected), S)

\* C9 witness: foil offers at 1.49 and 1.99 survive and the 1.99 one is
\* returned.
C9_Witness ==
    /\ SelDone
    /\ strategy = "blingiest"
    /\ offers = <<Offer(T_NM, 149, TRUE, TRUE), Offer(T_NM, 199, TRUE, TRUE)>>
    /\ selected = Some(Offer(T_NM, 199, TRUE, TRUE))

\* C10: for every strategy and floor, select returns None on the empty list
\* and on a list whose offers are all out of stock.
C10_NoneWithoutStock ==
    SelDone /\ (\A i \in DOMAIN offers : ~offers[i].availability) =>
        selected = None

\* C10 witness: two offers, both out of stock, and select has returned None.
C10_Witness ==
    /\ SelDone
    /\ Len(offers) = 2
    /\ \A i \in DOMAIN offers : ~offers[i].availability
    /\ selected = None

-----------------------------------------------------------------------------
(* Claims about meets_minimum_quality, checked under SpecQuality *)

\* the rank each condition text stands for, 0 for a text that is no rank
ExpectedRank ==
    { << <<>>, 0 >>,
      << T_NM, 6 >>, << <<"n","m">>, 6 >>, << <<" ","N","M"," ">>, 6 >>,
      << <<"N","e","a","r"," ","M","i","n","t">>, 6 >>,
      << <<"M","i","n","t">>, 7 >>, << <<"M">>, 7 >>,
      << <<"L","P">>, 5 >>,
      << <<"L","i","g","h","t","l","y"," ","P","l","a","y","e","d">>, 5 >>,
      << <<"M","P">>, 4 >>,
      << <<"M","o","d","e","r","a","t","e","l","y"," ","P","l","a","y","e","d">>, 4 >>,
      << <<"P","l","a","y","e","d">>, 3 >>, << <<"P","L">>, 3 >>, << <<"p">>, 3 >>,
      << <<"H","P">>, 2 >>,
      << <<"H","e","a","v","i","l","y"," ","P","l","a","y","e","d">>, 2 >>,
      << T_Damaged, 1 >>, << <<"D","M","G">>, 1 >>,
      << T_Good, 0 >>, << T_Unknown, 0 >>, << T_Proxy, 0 >>,
      << <<"H","e","a","v","y"," ","P","l","a","y","e","d">>, 0 >>,
      << <<"N","M","-","M","i","n","t">>, 0 >>,
      << <<"N","e","a","r"," "," ","M","i","n","t">>, 0 >> }

RankOf(text) == (CHOOSE e \in ExpectedRank : e[1] = text)[2]

\* C11: meets_minimum_quality returns TRUE for every condition text when the
\* floor is absent; with a floor it returns FALSE for a text that stands for
\* none of the seven ranks, and otherwise TRUE exactly when the rank of the
\* text is at least the rank of the floor.
C11_MeetsFloor ==
    \A f \in DOMAIN verdicts :
        LET rank == RankOf(condText)
        IN  /\ f = None => verdicts[f] = TRUE
            /\ f # None /\ rank = 0 => verdicts[f] = FALSE
            /\ f # None /\ rank # 0 => (verdicts[f] <=> rank >= Get(f))

\* C11 witness: the text "Good", which is no rank, has passed the absent
\* floor and failed the lowest floor, Damaged.
C11_Witness ==
    /\ condText = T_Good
    /\ {None, Some(DAMAGED)} \subseteq DOMAIN verdicts
    /\ verdicts[None] = TRUE
    /\ verdicts[Some(DAMAGED)] = FALSE

\* C12: if a condition text meets floor F then it meets every floor F' of
\* rank at most the rank of F.
C12_MonotonicInFloor ==
    \A F \in DOMAIN verdicts, G \in DOMAIN verdicts :
        F # None /\ G # None /\ Get(G) <= Get(F) /\ verdicts[F] => verdicts[G]

\* C12 witness: "LP" has met Lightly Played and Damaged and failed Near Mint.
C12_Witness ==
    /\ condText = <<"L","P">>
    /\ {Some(DAMAGED), Some(LIGHTLY_PLAYED), Some(NEAR_MINT)} \subseteq DOMAIN verdicts
    /\ verdicts[Some(LIGHTLY_PLAYED)] = TRUE
    /\ verdicts[Some(DAMAGED)] = TRUE
    /\ verdicts[Some(NEAR_MINT)] = FALSE

-----------------------------------------------------------------------------
(* Claims about select_best_offers, checked under SpecDriver *)

\* the strategy names passed that no policy is registered under
UnregisteredNames == {T_priciest_premium, T_bogus, <<>>}

\* the cards of the request that have an offer in stock meeting the floor
Resolvable(d, cs, floor) ==
    SelectSeq(cs, LAMBDA c : c.name \in DOMAIN d /\ Survivors(floor, d[c.name]) # {})

\* C13: with a strategy name that is not registered, get_strategy raises
\* ValueError instead of returning a default; select_best_offers logs the
\* error and the fallback and returns, for every card, the offer that policy
\* "cheapest" with the same floor returns: one offer of least price among the
\* card's offers in stock that meet the floor, for each card that has one.
C13_UnknownNameFallsBack ==
    driverCall # None /\ Get(driverCall).strategy_name \in UnregisteredNames =>
        LET floor == Get(driverCall).min_quality
            todo  == Resolvable(card_offers, cards, floor)
        IN  /\ get_strategy(Get(driverCall).strategy_name, floor) = None
            /\ Len(log) >= 2
            /\ log[1].level = "error"
            /\ log[2].what = "Falling back to 'cheapest' strategy"
            /\ selected_offers =
                   select_best_offers(card_offers, cards, T_cheapest, floor).selected_offers
            /\ Len(selected_offers) = Len(todo)
            /\ \A i \in DOMAIN todo :
                   IsCheapestOf(selected_offers[i],
                                Survivors(floor, card_offers[todo[i].name]))

\* C13 witness: strategy "priciest-premium", floor Lightly Played, one card
\* whose offers are a Damaged one at 1.49 and a Near Mint one at 1.99; the
\* error is logged and the Near Mint offer is returned.
C13_Witness ==
    /\ driverCall = Some([strategy_name |-> T_priciest_premium,
                          min_quality |-> Some(LIGHTLY_PLAYED)])
    /\ cards = <<Card(T_Bolt, 1)>>
    /\ T_Bolt \in DOMAIN card_offers
    /\ card_offers[T_Bolt] = <<O_Damaged149, O_NM199>>
    /\ log[1].level = "error"
    /\ selected_offers = <<O_NM199>>

-----------------------------------------------------------------------------
(* Claims about search_all_stores, checked under SpecAggregate *)

\* the stores a store_filter leaves active
ActiveStores(store_filter) ==
    CASE store_filter = ""                       -> {"facetoface", "topdeckhero"}
      [] store_filter = "facetoface,topdeckhero" -> {"facetoface", "topdeckhero"}
      [] store_filter = "topdeckhero"            -> {"topdeckhero"}
      [] store_filter = "facetoface"             -> {"facetoface"}
      [] store_filter = "nostore"                -> {}

\* C14: when the search of one active store fails for a card, the call of
\* search_all_stores still goes on and returns: the offers that every other
\* active store has for that card are in the card's result, and every card of
\* the request has a result.
C14_SourceFailureIsolated ==
    aggCall # None =>
        \A i \in DOMAIN cards :
            \A A \in ActiveStores(Get(aggCall).store_filter),
               B \in ActiveStores(Get(aggCall).store_filter) :
                ( /\ A # B
                  /\ site[<<A, cards[i].name>>] = None
                  /\ site[<<B, cards[i].name>>] # None )
                => /\ aggOutcome = "returned"
                   /\ \A j \in DOMAIN cards : cards[j].name \in DOMAIN card_offers
                   /\ Range(Get(site[<<B, cards[i].name>>]))
                          \subseteq Range(card_offers[cards[i].name])

-----------------------------------------------------------------------------
(* Claims about TopDeckHeroScraper.search, checked under SpecSearch *)

\* C15: with use_cache, after a search that missed the cache and fetched the
\* site without failure, whatever the number of offers fetched (zero
\* included), a second search of the same card made before the 24 hours of
\* the entry have passed is answered from the cache and makes no request.
C15_FetchedResultIsCached ==
    [][ ( /\ lastSearch # None
          /\ lastSearch' # None
          /\ Get(lastSearch').seq # Get(lastSearch).seq
          /\ Get(lastSearch).use_cache
          /\ ~Get(lastSearch).hit
          /\ ~Get(lastSearch).error
          /\ Get(lastSearch').use_cache
          /\ Get(lastSearch').card = Get(lastSearch).card
          /\ now - Get(lastSearch).at <= DEFAULT_TTL_HOURS )
        => Get(lastSearch').requests = 0
      ]_vars

\* for reference: what does hold.  A search that missed and fetched at least
\* one offer has written them, and the next search of that card within the
\* 24 hours makes no request and returns the same offers.
NonEmptyFetchIsCached ==
    [][ ( /\ lastSearch # None
          /\ lastSearch' # None
          /\ Get(lastSearch').seq # Get(lastSearch).seq
          /\ Get(lastSearch).use_cache
          /\ ~Get(lastSearch).hit
          /\ ~Get(lastSearch).error
          /\ Get(lastSearch).ret # <<>>
          /\ Get(lastSearch').use_cache
          /\ Get(lastSearch').card = Get(lastSearch).card
          /\ now - Get(lastSearch).at <= DEFAULT_TTL_HOURS )
        => /\ Get(lastSearch').requests = 0
           /\ Get(lastSearch').ret = Get(lastSearch).ret
      ]_vars

\* C16: every offer that search returns for a card has query equal to the
\* card's name, whether it was fetched from the site or read from the cache.
C16_OriginQueryTagged ==
    lastSearch # None =>
        \A i \in DOMAIN Get(lastSearch).ret :
            Get(lastSearch).ret[i].query = Get(lastSearch).card.name

-----------------------------------------------------------------------------
(* Claims about cache failures, checked under SpecFault *)

FaultPath == PathOf(T_TopDeckHero, FaultCard.name)

\* C18: whatever step of save_to_cache fails (creating the cache directory,
\* opening the file, serializing the payload), save_to_cache prints a
\* warning and returns without raising; and a search that fetched offers
\* returns them.
C18_WriteFailSoft ==
    /\ lastOp.kind = "save" =>
          /\ lastOp.raised = None
          /\ FaultPath \notin DOMAIN disk => lastOp.warned
    /\ ( /\ lastOp.kind = "search"
          /\ Get(lastSearch).requests > 0
          /\ ~fetch_pages(Get(lastSearch).answer, 1, <<>>).raised )
        => Get(lastSearch).ret = fetch_pages(Get(lastSearch).answer, 1, <<>>).offers

\* a file that is not a cache entry: no JSON, or without "timestamp" or "data"
IsDamaged(content) ==
    \/ content[1] # "json"
    \/ "timestamp" \notin DOMAIN content[2]
    \/ "data" \notin DOMAIN content[2]

\* C19: load_from_cache returns None without raising when the file of the
\* key cannot be read, is no JSON or lacks "timestamp" or "data"; and a
\* search that finds such a file fetches from the site and returns what it
\* would have returned with no file there.
C19_CorruptReadIsMiss ==
    [][ ( /\ FaultPath \in DOMAIN disk
          /\ ~fs.readable \/ IsDamaged(disk[FaultPath]) )
        => /\ lastOp'.kind = "load" =>
                 lastOp'.ret = None /\ lastOp'.raised = None
           /\ lastOp'.kind = "search" =>
                 LET without == search_outcome(Unlink(disk, {FaultPath}),
                                               cacheDirExists, fs, FaultCard, TRUE,
                                               Get(lastSearch').answer, now)
                 IN  /\ ~Get(lastSearch').hit
                     /\ Get(lastSearch').requests > 0
                     /\ Get(lastSearch').requests = without.requests
                     /\ Get(lastSearch').ret = without.ret
      ]_vars

\* C19 witness: the file of the key is no JSON and load_from_cache has
\* returned None, with its warning, without raising.
C19_Witness ==
    /\ lastOp.kind = "load"
    /\ FaultPath \in DOMAIN disk
    /\ disk[FaultPath][1] = "text"
    /\ lastOp.ret = None
    /\ lastOp.raised = None
    /\ lastOp.warned

\* for reference: on a damaged file a search has fetched and returned the
\* listing of the site
C19_SearchWitness ==
    /\ lastOp.kind = "search"
    /\ ~fs.writable
    /\ FaultPath \in DOMAIN disk
    /\ IsDamaged(disk[FaultPath])
    /\ Get(lastSearch).requests = 2
    /\ Get(lastSearch).ret = <<P_149>>

-----------------------------------------------------------------------------
(* Claims about concurrent use of one cache key, checked under SpecConc *)

\* C20: whatever the interleaving of the file steps of the workers on one
\* key, a load_from_cache that has returned has returned None or the whole
\* payload of one single save_to_cache, never a mix of two.
C20_LoadSeesOneSave ==
    loader.pc = "returned" =>
        \/ loader.ret = None
        \/ \E w \in ConcSavers : loader.ret = Some(ConcPayload(w))

-----------------------------------------------------------------------------
(* Claims about the loop over cards of select_best_offers, under SpecDriver *)

\* the log entries of one kind, in the order they were written
LogOf(what) == SelectSeq(log, LAMBDA e : e.what = what)

\* the strictly increasing maps from the places of a list of n into 1..m
Increasing(n, m) ==
    {f \in [1..n -> 1..m] : \A i, j \in 1..n : i < j => f[i] < f[j]}

\* C21: the offers returned by select_best_offers follow the order of the
\* cards passed: the k-th offer returned is one of the offers of a card, and
\* the cards of successive offers come at increasing places of the card
\* list, whatever the strategy and however card_offers was built.
C21_OutputFollowsInputOrder ==
    driverCall # None =>
        /\ Len(LogOf("Selected")) = Len(selected_offers)
        /\ \E f \in Increasing(Len(selected_offers), Len(cards)) :
               \A k \in DOMAIN selected_offers :
                   /\ LogOf("Selected")[k].card = cards[f[k]].name
                   /\ selected_offers[k] \in Range(dict_get(card_offers, cards[f[k]].name))

\* C21 witness: Fire/Ice is asked before bolt, its only offer costs more
\* than bolt's, and it comes first in the list returned.
C21_Witness ==
    /\ driverCall # None
    /\ Len(cards) = 2
    /\ cards[1].name = T_FireIce_slash
    /\ cards[2].name = T_Bolt
    /\ DOMAIN card_offers = {T_FireIce_slash, T_Bolt}
    /\ card_offers[T_FireIce_slash] = <<O_NM199>>
    /\ card_offers[T_Bolt] = <<O_Damaged149>>
    /\ selected_offers = <<O_NM199, O_Damaged149>>


\* the strategy the call runs with: the one registered under the name passed,
\* or cheapest with the same floor
UsedStrategy ==
    LET first == get_strategy(Get(driverCall).strategy_name, Get(driverCall).min_quality)
    IN  IF first # None THEN Get(first)
        ELSE [name |-> "cheapest", min_quality |-> Get(driverCall).min_quality]

\* what the strategy picks among the offers of the i-th card alone
PickOf(i) == strategy_select(UsedStrategy, dict_get(card_offers, cards[i].name))

\* the places of the card list whose card resolves, in order
ResolvedPlaces ==
    SelectSeq([i \in 1..Len(cards) |-> i], LAMBDA i : PickOf(i) # None)

\* the warnings logged, in order
Warnings == SelectSeq(log, LAMBDA e : e.level = "warning")

\* C22: a card with no offers, or none that survives the selection, gets a
\* warning in the log and no offer in the list, and the loop goes on: the
\* list returned holds the pick of every card that resolves, and the
\* warnings name the cards that do not, one each.  main gives up only when
\* no card of the batch resolves.
C22_PartialSuccess ==
    driverCall # None =>
        /\ Len(selected_offers) = Len(ResolvedPlaces)
        /\ \A k \in DOMAIN ResolvedPlaces :
               selected_offers[k] = Get(PickOf(ResolvedPlaces[k]))
        /\ Len(Warnings) = Len(cards) - Len(ResolvedPlaces)
        /\ \A i \in DOMAIN cards :
               PickOf(i) = None => \E e \in Range(Warnings) : e.card = cards[i].name
        /\ main_gives_up(selected_offers) <=> ResolvedPlaces = <<>>

\* C22 witness: of two cards asked the first has no entry in card_offers
\* and the second has a Near Mint offer; one warning, for the first, and
\* the offer of the second is returned.
C22_Witness ==
    /\ driverCall # None
    /\ Len(cards) = 2
    /\ cards[1].name = T_Bolt
    /\ cards[2].name = T_FireIce_slash
    /\ DOMAIN card_offers = {T_FireIce_slash}
    /\ card_offers[T_FireIce_slash] = <<O_NM199>>
    /\ selected_offers = <<O_NM199>>
    /\ Len(Warnings) = 1
    /\ Warnings[1].card = T_Bolt
    /\ ~main_gives_up(selected_offers)


\* the card lists that differ from cs in quantities only
QtyVariants(cs) ==
    {v \in [DOMAIN cs -> CardPool] : \A i \in DOMAIN cs : v[i].name = cs[i].name}

\* C23: the quantity asked of a card changes nothing: with the same
\* card_offers, strategy and floor, every card list that differs from the
\* one passed in quantities only gets the same list of offers back, with
\* one offer, not one per copy, for each card that resolves.
C23_QuantityIndependence ==
    driverCall # None =>
        /\ \A v \in QtyVariants(cards) :
               select_best_offers(card_offers, v, Get(driverCall).strategy_name,
                                  Get(driverCall).min_quality).selected_offers
                   = selected_offers
        /\ Len(selected_offers) = Len(ResolvedPlaces)
        /\ Len(selected_offers) <= Len(cards)

\* C23 witness: four copies of one card are asked and one offer is returned.
C23_Witness ==
    /\ driverCall # None
    /\ cards = <<Card(T_Bolt, 4)>>
    /\ T_Bolt \in DOMAIN card_offers
    /\ card_offers[T_Bolt] = <<O_NM199, O_Damaged149>>
    /\ Len(selected_offers) = 1

-----------------------------------------------------------------------------
(* Claims about Card and Offer, checked under SpecConstruct *)

\* C24: Card with an empty name or a quantity below 1, and Offer with an
\* empty store, an empty card name or a price below 0, raise ValueError;
\* every Card built has a name and a quantity of at least 1, every Offer
\* built has a store, a card name and a price of at least 0.
C24_ConstructionValidated ==
    built # None =>
        LET b == Get(built)
        IN  /\ b.class = "Card" =>
                  /\ (b.name = <<>> \/ b.qty < 1) => b.out.raised # None
                  /\ b.out.raised = None =>
                         /\ Get(b.out.obj).name # <<>>
                         /\ Get(b.out.obj).qty >= 1
                  /\ b.out.raised # None <=> b.out.obj = None
            /\ b.class = "Offer" =>
                  /\ (b.store = <<>> \/ b.card = <<>> \/ b.price < 0)
                         => b.out.raised # None
                  /\ b.out.raised = None =>
                         /\ Get(b.out.obj).store # <<>>
                         /\ Get(b.out.obj).card # <<>>
                         /\ Get(b.out.obj).price >= 0
                  /\ b.out.raised # None <=> b.out.obj = None

\* C24 witness: an Offer with a store, a card name and the price -0.01 has
\* been refused.
C24_Witness ==
    /\ built # None
    /\ Get(built).class = "Offer"
    /\ Get(built).store = T_StoreX
    /\ Get(built).card = T_Bolt
    /\ Get(built).price = -1
    /\ Get(built).out.raised = Some("Price cannot be negative")

\* for reference: a Card with a name and the quantity 0 has been refused
C24_CardWitness ==
    /\ built # None
    /\ Get(built).class = "Card"
    /\ Get(built).name = T_Bolt
    /\ Get(built).qty = 0
    /\ Get(built).out.raised = Some("Quantity must be at least 1")

-----------------------------------------------------------------------------
(* Claims about the cache key and about eviction, checked under Spec *)

\* what load_from_cache(s, c) would return from a directory at this hour
WouldLoad(d, s, c) == load_outcome(d, TRUE, FsWorks, PathOf(s, c), now).ret

\* C25: the entry a lookup addresses is decided by its (source, item name)
\* pair and by nothing else: a save_to_cache under one pair leaves what
\* load_from_cache returns for every other pair as it was, so a payload
\* written under one pair is never returned for another.
C25_KeyIsSourceAndName ==
    [][ lastOp'.kind = "save" =>
          \A s \in Stores, c \in Cards :
              <<s, c>> # <<Get(lastOp'.store), Get(lastOp'.card)>>
                  => WouldLoad(disk', s, c) = WouldLoad(disk, s, c)
      ]_vars


\* the entry written by the save followed is in the directory as written,
\* and is older than its ttl_hours
FollowedIsStale ==
    /\ probe # None
    /\ LET w == Get(probe)
           path == PathOf(w.store, w.card)
       IN  /\ path \in DOMAIN disk
           /\ StoredAt(disk, path) = w.at
           /\ StoredTtl(disk, path) = w.ttl
           /\ StoredData(disk, path) = w.data
           /\ now - w.at > w.ttl

\* C27: an entry older than its ttl stays in the cache directory through
\* every step that is neither a load_from_cache of its own (source, item
\* name) pair nor a clear_cache: saves and loads of other pairs and the
\* passing of time do not remove it.
C27_EvictionIsLazy ==
    [][ ( /\ FollowedIsStale
          /\ ~(now' = now /\ LoadedKey(lastOp', Get(probe).store, Get(probe).card))
          /\ ~(now' = now /\ lastOp'.kind = "clear") )
        => PathOf(Get(probe).store, Get(probe).card) \in DOMAIN disk'
      ]_vars

\* for reference: per cache file eviction is lazy.  A file that holds a
\* stale entry is removed by no step but a load_from_cache that addresses
\* that file or a clear_cache.
LazyPerFile ==
    [][ \A n \in DOMAIN disk :
          ( /\ now - StoredAt(disk, n) > StoredTtl(disk, n)
            /\ n \notin DOMAIN disk' )
          => /\ now' = now
             /\ \/ lastOp'.kind = "clear"
                \/ /\ lastOp'.kind = "load"
                   /\ PathOf(Get(lastOp'.store), Get(lastOp'.card)) = n
      ]_vars

-----------------------------------------------------------------------------
(* Claims about the store filter of search_all_stores, under SpecAggregate *)

\* the store names of the scrapers a store_filter leaves out
InactiveStoreNames(store_filter) ==
    {IF k = "topdeckhero" THEN T_TopDeckHero ELSE T_FaceToFaceGames :
        k \in ScraperKeys \ ActiveStores(store_filter)}

\* C26: no offer of a store that the store_filter leaves out is in any
\* card's result; and when the store_filter names no store that exists,
\* search_all_stores logs the error and returns the empty dict.
C26_InactiveSourcesAndEmptyFilter ==
    aggCall # None =>
        /\ \A n \in DOMAIN card_offers : \A k \in DOMAIN card_offers[n] :
               card_offers[n][k].store \notin InactiveStoreNames(Get(aggCall).store_filter)
        /\ ActiveStores(Get(aggCall).store_filter) = {}
               => aggOutcome = "returned" /\ card_offers = <<>>

-----------------------------------------------------------------------------
(* Claims about a save racing with a lazy eviction, checked under SpecRace *)

\* what a load_from_cache of the key returns when it runs from here to its
\* end with no step of another worker in between
LoadAlone ==
    IF cacheFile = None \/ ~IsJsonText(Get(cacheFile)) THEN None
    ELSE IF IsExpired(json_load_blocks(Get(cacheFile)), now) THEN None
    ELSE Some(json_load_blocks(Get(cacheFile)).data)

\* C28: when a save_to_cache of a key has returned while a load_from_cache
\* of the key was in progress on a stale entry, a load that starts after
\* both have finished, within the ttl of the save, returns what was saved.
C28_FreshEntrySurvivesEviction ==
    ( /\ probe # None
      /\ Get(probe).overlapped
      /\ \A w \in ConcSavers : savers[w].pc = "idle"
      /\ loader.pc \in {"idle", "returned"}
      /\ now - Get(probe).at <= Get(probe).ttl )
    => LoadAlone = Some(Get(probe).data)


-----------------------------------------------------------------------------
(* Claims about the cache as seen through search, checked under SpecSearch *)

\* the step is a search
SearchStep ==
    /\ lastSearch' # None
    /\ lastSearch = None \/ Get(lastSearch').seq # Get(lastSearch).seq

\* C29: a search answered from the cache returns, field for field and in
\* the same order, the list that the search before it returned, when that
\* search used the cache and returned offers: the one that fetched them
\* from the site and wrote the entry, or one that the entry answered.
C29_CacheTransparency ==
    [][ ( /\ SearchStep
          /\ lastSearch # None
          /\ Get(lastSearch).use_cache
          /\ ~Get(lastSearch).error
          /\ Get(lastSearch).ret # <<>>
          /\ Get(lastSearch').hit )
        => /\ ~Get(lastSearch').error
           /\ Get(lastSearch').requests = 0
           /\ Get(lastSearch').ret = Get(lastSearch).ret
      ]_vars

\* the entry written from two pages, a foil listing among them, has answered
\* a later search
C29_Witness ==
    /\ lastSearch # None
    /\ Get(lastSearch).hit
    /\ Get(lastSearch).requests = 0
    /\ Get(lastSearch).ret = <<P_199, P_Foil249>>
    /\ now > 0

\* for reference: what TopDeckHeroScraper.search does by itself.  A search
\* with use_cache off leaves the cache directory as it was, every file and
\* its content, is not answered from the cache, and makes at least one
\* request of the site, a valid entry for the card or none.
NoCacheSearchLeavesCache ==
    [][ (SearchStep /\ ~Get(lastSearch').use_cache)
        => /\ disk' = disk
           /\ cacheDirExists' = cacheDirExists
           /\ ~Get(lastSearch').hit
           /\ Get(lastSearch').requests >= 1
      ]_vars

\* for reference: a search with use_cache off has gone to the site while the
\* cache holds a valid entry for its card
NoCacheSearchBesideValidEntry ==
    /\ lastSearch # None
    /\ ~Get(lastSearch).use_cache
    /\ Get(lastSearch).at = now
    /\ Get(lastSearch).requests >= 1
    /\ WouldLoad(disk, T_TopDeckHero, Get(lastSearch).card.name) # None

-----------------------------------------------------------------------------
(* Claims about use_cache in search_all_stores, checked under SpecAggregate *)

\* C30: search_all_stores called with use_cache off leaves the cache
\* directory as it was and searches every store for every card: it returns,
\* and the dict it returns has an entry for each card of the list.
C30_NoCacheSearchAsksEveryStore ==
    (aggCall # None /\ ~Get(aggCall).use_cache) =>
        /\ disk = <<>>
        /\ ~cacheDirExists
        /\ aggOutcome = "returned"
        /\ \A i \in DOMAIN cards : cards[i].name \in DOMAIN card_offers

=============================================================================
